---- MODULE Spec2Model ----
(***************************************************************************)
(* Asynchronous job-completion delivery of the chat front-end:             *)
(*   - Update Ingress / Job Store / Subscription Registry, in its three    *)
(*     server variants (broadcast-capable Express router, job-only Express *)
(*     router, edge function),                                             *)
(*   - the Push Delivery Channel (SSE stream) and the client hook          *)
(*     useSSEUpdates that reads it,                                        *)
(*   - the broadcast-enabled useChat that reconciles pushed updates,       *)
(*   - the Polling Fallback loop pollForResult.                            *)
(***************************************************************************)
EXTENDS Integers, Sequences, FiniteSets, TLC

\* ---------------------------------------------------------------- values
\* JavaScript `undefined` (a key that is absent from a JSON body or record)
Undef == "undefined"
\* JavaScript `null`
Null == "null"
\* the empty string, falsy like undefined
Empty == ""

Truthy(x) == x \notin {Undef, Null, Empty}

BROADCAST_KEY == "__broadcast__"
\* the literal path token that selects the broadcast channel
BroadcastToken == "broadcast"

\* ---------------------------------------------------------------- bounds
\* pending deletion timers per job identifier
MaxTimers == 2
\* stream connections opened during one run
MaxChans == 2
\* events written to one stream connection and not yet read by the client
MaxWire == 1
\* messages in the conversation
MaxMsgs == 5
\* sendMessage calls awaiting their response
MaxInflight == 1
\* events a reader other than the hook may leave unread
MaxBacklog == 2

\* ---------------------------------------------------------------- inputs
RunIds == {"r1", "r2"}
IdVals == RunIds \cup {Undef}
StatusVals == {"pending", "completed", "error"}
StatusIn == StatusVals \cup {Undef}
AnswerVals == {"a1", "a2"}
AnswerIn == AnswerVals \cup {Undef}
ErrorIn == {Undef, "boom"}

\* server variants
VBroadcast == "express-broadcast"
VJob == "express-job"
VEdge == "edge-function"
Variants == {VBroadcast, VJob, VEdge}

\* Request bodies the automation backend posts.  At most one of the three
\* historical identifier keys is set; an error text only comes with status
\* error.
BodiesOver(ids, answers) ==
  { b \in [jobId : ids \cup {Undef}, runID : ids \cup {Undef}, runId : ids \cup {Undef},
           status : StatusIn, answer : answers \cup {Undef}, error : ErrorIn] :
      /\ Cardinality({k \in {"jobId", "runID", "runId"} : b[k] # Undef}) <= 1
      /\ (b.error # Undef => b.status = "error")
      /\ (b.status = "error" => b.answer = Undef) }

\* bodies posted in the runs that exercise the Job Store alone
Bodies == BodiesOver(RunIds, AnswerVals)
\* bodies posted in the runs that also have stream connections: with the
\* identifier under one of its keys ...
PushIds == {"r1"}
IngressBodies == BodiesOver(PushIds, {"a1"})
\* ... or under all of them or none
PushBodies ==
  { b \in [jobId : PushIds \cup {Undef}, runID : PushIds \cup {Undef}, runId : PushIds \cup {Undef},
           status : StatusIn, answer : {"a1", Undef}, error : ErrorIn] :
      /\ b.jobId = b.runID /\ b.runID = b.runId
      /\ (b.error # Undef => b.status = "error")
      /\ (b.status = "error" => b.answer = Undef) }
PushPaths == PushIds \cup {BroadcastToken}

\* ---------------------------------------------------------------- state
VARIABLES
  variant,      \* which server implementation is deployed
  jobUpdates,   \* Job Store: job identifier -> record, NoRec when absent
  sseClients,   \* Subscription Registry: key -> list of stream connections
  timers,       \* pending setTimeout deletions per job identifier
  chans,        \* stream connections (server Response + client EventSource)
  last,         \* the last server handler that ran and its HTTP response
  connectionsRef, \* useSSEUpdates: subscription key -> its open connection, 0 when none
  pollKind,     \* pollForResult: which implementation of the loop runs
  pollJob,      \* pollForResult: the identifier it polls for
  pollPc,       \* pollForResult: idle, polling, resolved, rejected
  attempt,      \* pollForResult: attempts counted against the budget
  fetches,      \* poll requests sent
  polled,       \* what the last poll request came back with
  pollResult,   \* the answer pollForResult returned or the message it threw
  activeSubscriptionsRef, \* useChat: identifiers with a job-specific subscription
  pendingJobIdsRef, \* useChat: identifier -> position of its provisional message, 0 when none
  messages,     \* useChat: the conversation
  isLoading,    \* useChat: state.isLoading
  chatError,    \* useChat: state.error
  broadcastSubscribedRef, \* useChat: the mount effect subscribed to 'broadcast'
  inflight,     \* sendMessage calls that await sendChatMessage
  realtime      \* useWebhookRealtime: its options, its channel, the last onUpdate call

serverVars == <<variant, jobUpdates, sseClients, timers>>
hookVars == <<connectionsRef>>
pollVars == <<pollKind, pollJob, pollPc, attempt, fetches, polled, pollResult>>
chatVars == <<activeSubscriptionsRef, pendingJobIdsRef, messages, isLoading, chatError,
              broadcastSubscribedRef, inflight>>
appVars == <<pollVars, chatVars>>
vars == <<variant, jobUpdates, sseClients, timers, chans, last, connectionsRef, appVars, realtime>>

NoRec == [status |-> Undef, answer |-> Undef, error |-> Undef, runID |-> Undef]
Rec(status, answer, error, runID) ==
  [status |-> status, answer |-> answer, error |-> error, runID |-> runID]

RegKeys == RunIds \cup {BROADCAST_KEY}
\* Job Store keys: an identifier is an arbitrary string, the reserved key included
StoreKeys == RunIds \cup {BROADCAST_KEY}
ChanIds == 1..MaxChans
StreamPaths == RunIds \cup {BroadcastToken}

\* path: the stream path parameter; cli: the reader (free, active: an
\* EventSource of useSSEUpdates, raw: another HTTP client, closed);
\* srv: the request on the server (none: not handled yet, registered, broken:
\* registered and its write throws, replayed: ended by the connect handler,
\* ended: ended by the ingress, done: close handler ran); wire: events written and not yet read; got: terminal updates
\* this connection handed to onUpdate; beat: the heartbeat interval of the
\* request is set
FreeChan == [path |-> Undef, cli |-> "free", srv |-> "none", wire |-> <<>>, got |-> 0, beat |-> FALSE]

\* `status === 'completed' || status === 'error'`
IsTerminal(status) == status = "completed" \/ status = "error"

PendingBody == [status |-> "pending", answer |-> Undef, error |-> Undef, runID |-> Undef]

\* a fan-out that writes to the registered connections of every key
WriteAll_Everyone(ch, cs, update, closing) ==
  [c \in ChanIds |->
     IF ch[c].srv = "registered"
     THEN [ch[c] EXCEPT !.wire = IF ch[c].cli \in {"active", "raw"} THEN Append(@, update) ELSE @,
                        !.srv = IF closing /\ (\E i \in 1..Len(cs) : cs[i] = c)
                                THEN "ended" ELSE @]
     ELSE ch[c]]

\* a fan-out that puts the event in front of the unread ones
WriteAll_Prepends(ch, cs, update, closing) ==
  [c \in ChanIds |->
     IF (\E i \in 1..Len(cs) : cs[i] = c) /\ ch[c].srv # "broken"
     THEN [ch[c] EXCEPT !.wire = IF ch[c].cli \in {"active", "raw"} THEN <<update>> \o @ ELSE @,
                        !.srv = IF closing THEN "ended" ELSE @]
     ELSE ch[c]]

\* a fan-out that stops at the first connection whose write throws
WriteAll_AbortsOnThrow(ch, cs, update, closing) ==
  [c \in ChanIds |->
     IF \E i \in 1..Len(cs) : cs[i] = c /\ \A k \in 1..i : ch[cs[k]].srv # "broken"
     THEN [ch[c] EXCEPT !.wire = IF ch[c].cli \in {"active", "raw"} THEN Append(@, update) ELSE @,
                        !.srv = IF closing THEN "ended" ELSE @]
     ELSE ch[c]]

\* a fan-out that leaves out the first connection of the list
WriteAll_SkipsFirst(ch, cs, update, closing) ==
  [c \in ChanIds |->
     IF (\E i \in 2..Len(cs) : cs[i] = c) /\ ch[c].srv # "broken"
     THEN [ch[c] EXCEPT !.wire = IF ch[c].cli \in {"active", "raw"} THEN Append(@, update) ELSE @,
                        !.srv = IF closing THEN "ended" ELSE @]
     ELSE ch[c]]

\* client.write(`data: ${JSON.stringify(update)}\n\n`) to every connection in cs;
\* client.end() on each when closing.  Both are inside one try block per
\* connection: when the write throws (srv is broken) the catch logs it, end()
\* is not reached for that connection, and forEach goes on with the next.
WriteAll(ch, cs, update, closing) ==
  [c \in ChanIds |->
     LET visits == Cardinality({i \in 1..Len(cs) : cs[i] = c})
     IN IF visits > 0 /\ ch[c].srv # "broken"
        THEN [ch[c] EXCEPT !.wire = IF ch[c].cli \in {"active", "raw"}
                                    THEN @ \o [i \in 1..visits |-> update] ELSE @,
                           !.srv = IF closing THEN "ended" ELSE @]
        ELSE ch[c]]

\* every connection in cs can take one more event
Room(ch, cs) ==
  \A i \in 1..Len(cs) :
    Len(ch[cs[i]].wire) < (IF ch[cs[i]].cli = "raw" THEN MaxBacklog ELSE MaxWire)

\* list.filter(c => c !== res)
Without(cs, c) == SelectSeq(cs, LAMBDA x : x # c)

Resp(op, key, code, body) == [op |-> op, key |-> key, code |-> code, body |-> body]

\* ------------------------------------------------- Update Ingress (server)
\* an ingress that takes the supplied status as it is, without inferring one
PostUpdateBroadcast_NoInference(b) ==
  LET runID == b.runID
      status == b.status
      isBroadcast == ~Truthy(runID)
      targetKey == IF Truthy(runID) THEN runID ELSE BROADCAST_KEY
      update == Rec(status, b.answer, Undef, IF Truthy(runID) THEN runID ELSE Null)
      clients == sseClients[targetKey]
      closing == ~isBroadcast /\ IsTerminal(status)
  IN /\ variant = VBroadcast
     /\ Room(chans, clients)
     /\ closing => timers[runID] < MaxTimers
     /\ jobUpdates' = IF Truthy(runID)
                      THEN [jobUpdates EXCEPT ![runID] = Rec(status, b.answer, Undef, Undef)]
                      ELSE jobUpdates
     /\ chans' = WriteAll(chans, clients, update, closing)
     /\ sseClients' = IF closing THEN [sseClients EXCEPT ![runID] = <<>>] ELSE sseClients
     /\ timers' = IF closing THEN [timers EXCEPT ![runID] = @ + 1] ELSE timers
     /\ last' = Resp("update", Undef, 200, Undef)
     /\ UNCHANGED <<realtime, variant, hookVars, appVars>>

\* POST /api/webhook/update of the broadcast-capable Express router.
\* It reads only the key runID; a missing runID selects the broadcast channel,
\* a missing status is inferred from the presence of an answer.
PostUpdateBroadcast(b) ==
  LET runID == b.runID
      status == IF Truthy(b.status) THEN b.status
                ELSE IF Truthy(b.answer) THEN "completed" ELSE "pending"
      isBroadcast == ~Truthy(runID)
      targetKey == IF Truthy(runID) THEN runID ELSE BROADCAST_KEY
      update == Rec(status, b.answer, Undef, IF Truthy(runID) THEN runID ELSE Null)
      clients == sseClients[targetKey]
      closing == ~isBroadcast /\ IsTerminal(status)
  IN /\ variant = VBroadcast
     /\ Room(chans, clients)
     /\ closing => timers[runID] < MaxTimers
     /\ jobUpdates' = IF Truthy(runID)
                      THEN [jobUpdates EXCEPT ![runID] = Rec(status, b.answer, Undef, Undef)]
                      ELSE jobUpdates
     /\ chans' = WriteAll(chans, clients, update, closing)
     /\ sseClients' = IF closing THEN [sseClients EXCEPT ![runID] = <<>>] ELSE sseClients
     /\ timers' = IF closing THEN [timers EXCEPT ![runID] = @ + 1] ELSE timers
     /\ last' = Resp("update", Undef, 200, Undef)
     /\ UNCHANGED <<realtime, variant, hookVars, appVars>>

\* PostUpdateJob without the check for a missing status
PostUpdateJob_NoStatusCheck(b) ==
  LET jobId == b.jobId
      update == Rec(b.status, b.answer, b.error, Undef)
      clients == sseClients[jobId]
      closing == IsTerminal(b.status)
  IN /\ variant = VJob
     /\ IF ~Truthy(jobId)
        THEN /\ last' = Resp("update", Undef, 400, Undef)
             /\ UNCHANGED <<jobUpdates, sseClients, timers, chans>>
        ELSE /\ closing => timers[jobId] < MaxTimers
             /\ Room(chans, clients)
             /\ jobUpdates' = [jobUpdates EXCEPT ![jobId] = update]
             /\ chans' = WriteAll(chans, clients, update, closing)
             /\ sseClients' = IF closing THEN [sseClients EXCEPT ![jobId] = <<>>] ELSE sseClients
             /\ timers' = IF closing THEN [timers EXCEPT ![jobId] = @ + 1] ELSE timers
             /\ last' = Resp("update", Undef, 200, Undef)
     /\ UNCHANGED <<realtime, variant, hookVars, appVars>>

\* POST /api/webhook/update of the job-only Express router.  It reads only
\* the key jobId and rejects a body without jobId or without status.
PostUpdateJob(b) ==
  LET jobId == b.jobId
      update == Rec(b.status, b.answer, b.error, Undef)
      clients == sseClients[jobId]
      closing == IsTerminal(b.status)
  IN /\ variant = VJob
     /\ IF ~Truthy(jobId) \/ ~Truthy(b.status)
        THEN /\ last' = Resp("update", Undef, 400, Undef)
             /\ UNCHANGED <<jobUpdates, sseClients, timers, chans>>
        ELSE /\ closing => timers[jobId] < MaxTimers
             /\ Room(chans, clients)
             /\ jobUpdates' = [jobUpdates EXCEPT ![jobId] = update]
             /\ chans' = WriteAll(chans, clients, update, closing)
             /\ sseClients' = IF closing THEN [sseClients EXCEPT ![jobId] = <<>>] ELSE sseClients
             /\ timers' = IF closing THEN [timers EXCEPT ![jobId] = @ + 1] ELSE timers
             /\ last' = Resp("update", Undef, 200, Undef)
     /\ UNCHANGED <<realtime, variant, hookVars, appVars>>

\* POST handler of the edge function.  It resolves the identifier from runID
\* or runId, rejects a body without identifier or status, and has no
\* subscribers to notify.
PostUpdateEdge(b) ==
  LET normalizedRunID == IF Truthy(b.runID) THEN b.runID ELSE b.runId
      update == Rec(b.status, b.answer, b.error, normalizedRunID)
  IN /\ variant = VEdge
     /\ IF ~Truthy(normalizedRunID) \/ ~Truthy(b.status)
        THEN /\ last' = Resp("update", Undef, 400, Undef)
             /\ UNCHANGED <<jobUpdates, timers>>
        ELSE /\ IsTerminal(b.status) => timers[normalizedRunID] < MaxTimers
             /\ jobUpdates' = [jobUpdates EXCEPT ![normalizedRunID] = update]
             /\ timers' = IF IsTerminal(b.status)
                          THEN [timers EXCEPT ![normalizedRunID] = @ + 1] ELSE timers
             /\ last' = Resp("update", Undef, 200, Undef)
     /\ UNCHANGED <<realtime, variant, sseClients, chans, hookVars, appVars>>

\* a timer that fires without deleting the record
TimerFire_KeepsRecord(j) ==
  /\ timers[j] > 0
  /\ timers' = [timers EXCEPT ![j] = @ - 1]
  /\ last' = Resp("timer", j, 0, Undef)
  /\ UNCHANGED <<realtime, variant, jobUpdates, sseClients, chans, hookVars, appVars>>

\* setTimeout(() => jobUpdates.delete(runID), grace period)
TimerFire(j) ==
  /\ timers[j] > 0
  /\ timers' = [timers EXCEPT ![j] = @ - 1]
  /\ jobUpdates' = [jobUpdates EXCEPT ![j] = NoRec]
  /\ last' = Resp("timer", j, 0, Undef)
  /\ UNCHANGED <<realtime, variant, sseClients, chans, hookVars, appVars>>

\* the body GET /status/{id} answers with, in all three variants
StatusBody(store, j) == IF store[j] = NoRec THEN PendingBody ELSE store[j]

\* a status query that stores a pending record for a job it does not know
GetStatus_CreatesRecord(j) ==
  /\ last' = Resp("status", j, 200, StatusBody(jobUpdates, j))
  /\ jobUpdates' = IF jobUpdates[j] = NoRec THEN [jobUpdates EXCEPT ![j] = PendingBody]
                   ELSE jobUpdates
  /\ UNCHANGED <<realtime, variant, sseClients, timers, chans, hookVars, appVars>>

\* GET /status/{id}
GetStatus(j) ==
  /\ last' = Resp("status", j, 200, StatusBody(jobUpdates, j))
  /\ UNCHANGED <<realtime, variant, jobUpdates, sseClients, timers, chans, hookVars, appVars>>

\* ------------------------------------------- Push Delivery Channel (server)
\* the registry key a stream path addresses in the broadcast-capable router
TargetKey(path) == IF path = BroadcastToken THEN BROADCAST_KEY ELSE path

\* a connect handler without the replay of the stored record
StreamConnectBroadcast_NoReplay(c) ==
  LET targetKey == TargetKey(chans[c].path)
  IN /\ variant = VBroadcast
     /\ chans[c].cli # "free" /\ chans[c].srv = "none"
     /\ chans' = [chans EXCEPT ![c].srv = "registered", ![c].beat = TRUE]
     /\ sseClients' = [sseClients EXCEPT ![targetKey] = Append(@, c)]
     /\ UNCHANGED <<realtime, variant, jobUpdates, timers, last, hookVars, appVars>>

\* GET /api/webhook/stream/:runID of the broadcast-capable router: replay the
\* stored record of a job (never for the broadcast channel), end at once when
\* it is terminal, otherwise register the connection.
StreamConnectBroadcast(c) ==
  LET runID == chans[c].path
      targetKey == TargetKey(runID)
      existingUpdate == IF targetKey # BROADCAST_KEY THEN jobUpdates[runID] ELSE NoRec
      replay == existingUpdate # NoRec
      sent == IF replay THEN Append(chans[c].wire, existingUpdate) ELSE chans[c].wire
  IN /\ variant = VBroadcast
     /\ chans[c].cli # "free" /\ chans[c].srv = "none"
     /\ IF replay /\ IsTerminal(existingUpdate.status)
        THEN /\ chans' = [chans EXCEPT ![c].wire = sent, ![c].srv = "replayed"]
             /\ UNCHANGED sseClients
        ELSE /\ chans' = [chans EXCEPT ![c].wire = sent, ![c].srv = "registered", ![c].beat = TRUE]
             /\ sseClients' = [sseClients EXCEPT ![targetKey] = Append(@, c)]
     /\ UNCHANGED <<realtime, variant, jobUpdates, timers, last, hookVars, appVars>>

\* GET /api/webhook/stream/:jobId of the job-only router
StreamConnectJob(c) ==
  LET jobId == chans[c].path
      existingUpdate == jobUpdates[jobId]
      replay == existingUpdate # NoRec
      sent == IF replay THEN Append(chans[c].wire, existingUpdate) ELSE chans[c].wire
  IN /\ variant = VJob
     /\ chans[c].cli # "free" /\ chans[c].srv = "none"
     /\ IF replay /\ IsTerminal(existingUpdate.status)
        THEN /\ chans' = [chans EXCEPT ![c].wire = sent, ![c].srv = "replayed"]
             /\ UNCHANGED sseClients
        ELSE /\ chans' = [chans EXCEPT ![c].wire = sent, ![c].srv = "registered", ![c].beat = TRUE]
             /\ sseClients' = [sseClients EXCEPT ![jobId] = Append(@, c)]
     /\ UNCHANGED <<realtime, variant, jobUpdates, timers, last, hookVars, appVars>>

\* a close handler that drops the whole list of its key
ReqClose_DropsKey(c) ==
  LET targetKey == IF variant = VBroadcast THEN TargetKey(chans[c].path) ELSE chans[c].path
  IN /\ chans[c].srv \in {"registered", "ended", "broken"}
     /\ chans[c].cli = "closed" \/ chans[c].srv \in {"ended", "broken"}
     /\ sseClients' = [sseClients EXCEPT ![targetKey] = <<>>]
     /\ chans' = [chans EXCEPT ![c].srv = "done", ![c].beat = FALSE]
     /\ UNCHANGED <<realtime, variant, jobUpdates, timers, last, hookVars, appVars>>

\* a close handler that also deletes the record of a key left without
\* connections
ReqClose_DropsRecord(c) ==
  LET targetKey == IF variant = VBroadcast THEN TargetKey(chans[c].path) ELSE chans[c].path
      remaining == Without(sseClients[targetKey], c)
  IN /\ chans[c].srv \in {"registered", "ended", "broken"}
     /\ chans[c].cli = "closed" \/ chans[c].srv \in {"ended", "broken"}
     /\ sseClients' = [sseClients EXCEPT ![targetKey] = remaining]
     /\ jobUpdates' = IF remaining = <<>> THEN [jobUpdates EXCEPT ![targetKey] = NoRec] ELSE jobUpdates
     /\ chans' = [chans EXCEPT ![c].srv = "done", ![c].beat = FALSE]
     /\ UNCHANGED <<realtime, variant, timers, last, hookVars, appVars>>

\* req.on('close', ...): the connection went down (the client closed it, or the
\* server ended it); drop it from its key's list, delete the key when empty
ReqClose(c) ==
  LET targetKey == IF variant = VBroadcast THEN TargetKey(chans[c].path) ELSE chans[c].path
      remaining == Without(sseClients[targetKey], c)
  IN /\ chans[c].srv \in {"registered", "ended", "broken"}
     /\ chans[c].cli = "closed" \/ chans[c].srv \in {"ended", "broken"}
     /\ sseClients' = [sseClients EXCEPT ![targetKey] = remaining]
     /\ chans' = [chans EXCEPT ![c].srv = "done", ![c].beat = FALSE]
     /\ UNCHANGED <<realtime, variant, jobUpdates, timers, last, hookVars, appVars>>

\* the socket of a registered connection fails: from now on client.write
\* throws
SocketBreaks(c) ==
  /\ chans[c].srv = "registered"
  /\ chans' = [chans EXCEPT ![c].srv = "broken"]
  /\ UNCHANGED <<realtime, serverVars, last, hookVars, appVars>>

\* the lowest connection slot not used so far
NewChan == CHOOSE c \in ChanIds : chans[c].cli = "free" /\ \A d \in 1..(c - 1) : chans[d].cli # "free"

\* the heartbeat interval of a request fires: `: heartbeat` is written, a
\* comment line that readers of the stream skip; when the write throws the
\* catch clears the interval
Heartbeat(c) ==
  /\ chans[c].beat
  /\ chans' = IF chans[c].srv = "broken" THEN [chans EXCEPT ![c].beat = FALSE] ELSE chans
  /\ UNCHANGED <<realtime, serverVars, last, hookVars, appVars>>

\* ------------------------------------------- other stream readers (client)
\* another HTTP client opens GET /api/webhook/stream/{k}
RawSubscribe(k) ==
  /\ variant # VEdge
  /\ k = BroadcastToken => variant = VBroadcast
  /\ \E c \in ChanIds : chans[c].cli = "free"
  /\ chans' = [chans EXCEPT ![NewChan] = [path |-> k, cli |-> "raw", srv |-> "none", wire |-> <<>>, got |-> 0, beat |-> FALSE]]
  /\ UNCHANGED <<realtime, serverVars, last, hookVars, appVars>>

\* it reads the next event
RawRead(c) ==
  /\ chans[c].cli = "raw"
  /\ chans[c].wire # <<>>
  /\ chans' = [chans EXCEPT ![c].wire = Tail(@)]
  /\ UNCHANGED <<realtime, serverVars, last, hookVars, appVars>>

\* it drops the connection
RawClose(c) ==
  /\ chans[c].cli = "raw"
  /\ chans' = [chans EXCEPT ![c].cli = "closed", ![c].wire = <<>>]
  /\ UNCHANGED <<realtime, serverVars, last, hookVars, appVars>>

\* ------------------------------------------------- useSSEUpdates (client)
\* a subscribe without the check for a tracked connection
Subscribe_NoCheck(k) ==
  /\ variant # VEdge
  /\ k = BroadcastToken => variant = VBroadcast
  /\ \E c \in ChanIds : chans[c].cli = "free"
  /\ chans' = [chans EXCEPT ![NewChan] = [path |-> k, cli |-> "active", srv |-> "none", wire |-> <<>>, got |-> 0, beat |-> FALSE]]
  /\ connectionsRef' = [connectionsRef EXCEPT ![k] = NewChan]
  /\ UNCHANGED <<realtime, serverVars, last, appVars>>

\* subscribe(jobId): returns when already subscribed, else opens an EventSource
\* on /api/webhook/stream/{jobId} and records it
Subscribe(k) ==
  /\ variant # VEdge
  /\ k = BroadcastToken => variant = VBroadcast
  /\ connectionsRef[k] = 0
  /\ \E c \in ChanIds : chans[c].cli = "free"
  /\ chans' = [chans EXCEPT ![NewChan] = [path |-> k, cli |-> "active", srv |-> "none", wire |-> <<>>, got |-> 0, beat |-> FALSE]]
  /\ connectionsRef' = [connectionsRef EXCEPT ![k] = NewChan]
  /\ UNCHANGED <<realtime, serverVars, last, appVars>>

\* an onmessage that closes the connection on a terminal update and keeps its
\* entry
OnMessage_KeepsEntry(c) ==
  LET update == Head(chans[c].wire)
  IN /\ chans[c].cli = "active"
     /\ chans[c].wire # <<>>
     /\ IF IsTerminal(update.status)
        THEN chans' = [chans EXCEPT ![c].cli = "closed", ![c].wire = <<>>, ![c].got = @ + 1]
        ELSE chans' = [chans EXCEPT ![c].wire = Tail(@)]
     /\ UNCHANGED <<realtime, serverVars, last, connectionsRef, appVars>>

\* an onmessage handler that keeps the connection after a terminal update
OnMessage_KeepsOpen(c) ==
  LET update == Head(chans[c].wire)
  IN /\ chans[c].cli = "active"
     /\ chans[c].wire # <<>>
     /\ chans' = [chans EXCEPT ![c].wire = Tail(@),
                               ![c].got = IF IsTerminal(update.status) THEN @ + 1 ELSE @]
     /\ UNCHANGED <<realtime, serverVars, last, connectionsRef, appVars>>

\* eventSource.onmessage: hand the update to onUpdate, then close and forget
\* the connection when the update is terminal
OnMessage(c) ==
  LET jobId == chans[c].path
      update == Head(chans[c].wire)
  IN /\ chans[c].cli = "active"
     /\ chans[c].wire # <<>>
     /\ IF IsTerminal(update.status)
        THEN /\ chans' = [chans EXCEPT ![c].cli = "closed", ![c].wire = <<>>, ![c].got = @ + 1]
             /\ connectionsRef' = [connectionsRef EXCEPT ![jobId] = 0]
        ELSE /\ chans' = [chans EXCEPT ![c].wire = Tail(@)]
             /\ UNCHANGED connectionsRef
     /\ UNCHANGED <<realtime, serverVars, last, appVars>>

\* eventSource.onerror.  Either the EventSource has given up (readyState is
\* CLOSED) and the handler forgets the connection, or the browser reconnects:
\* the request the server had is over and, what was received of it having been
\* dispatched, the same EventSource sends a new one
OnError(c, closed) ==
  /\ chans[c].cli = "active"
  /\ IF closed
     THEN /\ chans' = [chans EXCEPT ![c].cli = "closed", ![c].wire = <<>>]
          /\ connectionsRef' = [connectionsRef EXCEPT ![chans[c].path] = 0]
     ELSE /\ chans[c].srv = "done" /\ chans[c].wire = <<>>
          /\ chans' = [chans EXCEPT ![c].srv = "none"]
          /\ UNCHANGED connectionsRef
  /\ UNCHANGED <<realtime, serverVars, last, appVars>>

\* an unsubscribe that closes the connection and keeps its entry
Unsubscribe_KeepsEntry(k) ==
  /\ connectionsRef[k] # 0
  /\ chans[connectionsRef[k]].cli = "active"
  /\ chans' = [chans EXCEPT ![connectionsRef[k]].cli = "closed", ![connectionsRef[k]].wire = <<>>]
  /\ UNCHANGED <<realtime, serverVars, last, connectionsRef, appVars>>

\* unsubscribe(jobId)
Unsubscribe(k) ==
  /\ connectionsRef[k] # 0
  /\ chans' = [chans EXCEPT ![connectionsRef[k]].cli = "closed", ![connectionsRef[k]].wire = <<>>]
  /\ connectionsRef' = [connectionsRef EXCEPT ![k] = 0]
  /\ UNCHANGED <<realtime, serverVars, last, appVars>>

\* ------------------------------------------------ Polling Fallback (client)
MAX_POLL_ATTEMPTS == 300

\* the loop of src/lib/api.ts that asks the automation backend itself
PBackend == "poll-backend"
\* the loop that asks the edge function and compares the status literally
PStrict == "poll-edge-strict"
\* the loop that asks the edge function and normalises status and answer
PNormalizing == "poll-edge-normalizing"

TimeoutMsg == "Request timed out waiting for response"
NoAnswerText == "Workflow completed (no answer provided)"

\* an answer that is the text of a JSON array, and its elements joined by "\n"
ArrayText == "[\"x\",\"y\"]"
Joined == "x\ny"

\* no request was sent yet
NotPolled == Rec("<not-polled>", Undef, Undef, Undef)
\* fetch threw, or the response was not ok
Failed == Rec("<request-failed>", Undef, Undef, Undef)

\* String(data.status ?? '').toLowerCase()
ToLowerCase(s) ==
  CASE s = "DONE" -> "done"
    [] s \in {Undef, Null} -> Empty
    [] OTHER -> s

\* the answerText the normalising loop derives from data.answer
AnswerText(answer) ==
  IF ~Truthy(answer) THEN Empty
  ELSE IF answer = ArrayText THEN Joined
  ELSE answer

\* what the automation backend answers a poll with
PollResponses ==
  { d \in [status : StatusVals, answer : {"a1", Undef}, error : ErrorIn, runID : {Undef}] :
      /\ (d.error # Undef => d.status = "error")
      /\ (d.answer # Undef => d.status = "completed") }

\* what the automation backend posts to the edge function while a poller
\* runs: progress reports without an answer, completions with or without one,
\* failures with or without a detail
PollBodies ==
  { b \in [jobId : {Undef}, runID : PushIds \cup {Undef}, runId : {Undef},
           status : StatusIn \cup {"DONE"}, answer : {ArrayText, Undef}, error : ErrorIn] :
      /\ (b.error # Undef => b.status = "error")
      /\ (b.answer # Undef => b.status \in {"completed", "DONE"}) }

\* pollForResult(runID) is called
StartPoll(kind, j) ==
  /\ pollPc = "idle"
  /\ pollKind' = kind
  /\ pollJob' = j
  /\ pollPc' = "polling"
  /\ attempt' = 0
  /\ UNCHANGED <<realtime, serverVars, chans, last, hookVars, chatVars, fetches, polled, pollResult>>

\* the attempt neither returned nor escaped the loop: one interval later the
\* next iteration starts
PollAgain(seen) ==
  /\ attempt' = attempt + 1
  /\ fetches' = fetches + 1
  /\ polled' = seen
  /\ UNCHANGED <<pollKind, pollJob, pollPc, pollResult>>

\* `return { answer, meta }`
PollReturn(seen, answer) ==
  /\ attempt' = attempt + 1
  /\ fetches' = fetches + 1
  /\ polled' = seen
  /\ pollPc' = "resolved"
  /\ pollResult' = answer
  /\ UNCHANGED <<pollKind, pollJob>>

\* One iteration of the loop that compares the status literally.  The throw
\* for status error is inside the try block: the catch of the same iteration
\* takes it, warns, waits and lets the loop go on.
StrictIteration(ok, data) ==
  IF ~ok THEN PollAgain(Failed)
  ELSE IF data.status = "completed" /\ Truthy(data.answer) THEN PollReturn(data, data.answer)
  ELSE IF data.status = "error" THEN PollAgain(data)
  ELSE PollAgain(data)

\* one iteration of pollForResult of src/lib/api.ts, which posts the jobId to
\* the automation backend's poll URL
PollAttemptBackend(ok, data) ==
  /\ pollKind = PBackend
  /\ pollPc = "polling"
  /\ attempt < MAX_POLL_ATTEMPTS
  /\ StrictIteration(ok, data)
  /\ UNCHANGED <<realtime, serverVars, chans, last, hookVars, chatVars>>

\* an iteration in which a failed request does not count against the budget
PollAttemptEdge_FreeRetry(ok) ==
  /\ pollKind = PStrict
  /\ pollPc = "polling"
  /\ attempt < MAX_POLL_ATTEMPTS
  /\ IF ~ok
     THEN /\ fetches' = fetches + 1
          /\ polled' = Failed
          /\ UNCHANGED <<pollKind, pollJob, pollPc, pollResult, attempt>>
     ELSE StrictIteration(ok, StatusBody(jobUpdates, pollJob))
  /\ UNCHANGED <<realtime, serverVars, chans, last, hookVars, chatVars>>

\* one iteration of pollForResult that fetches /status/{runID} from the edge
\* function
PollAttemptEdge(ok) ==
  /\ pollKind = PStrict
  /\ pollPc = "polling"
  /\ attempt < MAX_POLL_ATTEMPTS
  /\ StrictIteration(ok, StatusBody(jobUpdates, pollJob))
  /\ UNCHANGED <<realtime, serverVars, chans, last, hookVars, chatVars>>

\* one iteration of the pollForResult that normalises what it fetched from
\* the edge function; its throw for a failure status is caught the same way
PollAttemptNormalizing(ok) ==
  LET data == StatusBody(jobUpdates, pollJob)
      normalizedStatus == ToLowerCase(data.status)
      answerText == AnswerText(data.answer)
  IN /\ pollKind = PNormalizing
     /\ pollPc = "polling"
     /\ attempt < MAX_POLL_ATTEMPTS
     /\ IF ~ok THEN PollAgain(Failed)
        ELSE IF normalizedStatus \in {"completed", "complete", "done", "success"}
          THEN PollReturn(data, IF answerText # Empty THEN answerText ELSE NoAnswerText)
        ELSE IF normalizedStatus \in {"error", "failed", "failure"} THEN PollAgain(data)
        ELSE PollAgain(data)
     /\ UNCHANGED <<realtime, serverVars, chans, last, hookVars, chatVars>>

\* a loop that gives up before the budget is used
PollTimeout_Early ==
  /\ pollPc = "polling"
  /\ attempt >= 1
  /\ pollPc' = "rejected"
  /\ pollResult' = TimeoutMsg
  /\ UNCHANGED <<realtime, serverVars, chans, last, hookVars, chatVars, pollKind, pollJob, attempt, fetches, polled>>

\* the loop condition fails: throw new Error('Request timed out waiting for
\* response')
PollTimeout ==
  /\ pollPc = "polling"
  /\ ~(attempt < MAX_POLL_ATTEMPTS)
  /\ pollPc' = "rejected"
  /\ pollResult' = TimeoutMsg
  /\ UNCHANGED <<realtime, serverVars, chans, last, hookVars, chatVars, pollKind, pollJob, attempt, fetches, polled>>

\* ------------------------------------- broadcast-enabled useChat (client)
\* the answer of the trigger request that announces an asynchronous job
WorkingOnIt == "Working on it"

\* what the automation backend posts while a chat is open: the router reads
\* runID, status and answer; a report of progress carries no answer
ChatBodies ==
  { b \in [jobId : {Undef}, runID : PushIds \cup {Undef}, runId : {Undef},
           status : {Undef, "completed", "error"}, answer : {"a1", Undef}, error : {Undef}] :
      b.answer # Undef => b.status = Undef }

\* bodies for the broadcast-capable router in which a status, when supplied,
\* is never completed
InferBodies ==
  { b \in [jobId : {Undef}, runID : PushIds \cup {Undef}, runId : {Undef},
           status : {Undef, "pending", "error"}, answer : {"a1", Undef}, error : {Undef}] :
      b.status = "error" => b.answer = Undef }

\* bodies whose runID may be the string the router reserves for its broadcast
\* list
ReservedIds == {"r1", BROADCAST_KEY}
ReservedBodies ==
  { b \in [jobId : {Undef}, runID : ReservedIds \cup {Undef}, runId : {Undef},
           status : {Undef, "completed"}, answer : {"a1", Undef}, error : {Undef}] :
      b.answer # Undef => b.status = Undef }

\* two distinguishable reports of progress and a completion, for one job
OrderBodies ==
  { b \in [jobId : PushIds, runID : PushIds, runId : PushIds,
           status : {"pending", "completed"}, answer : {"a1", Undef}, error : {Undef}] :
      b.status = "completed" => b.answer # Undef }

\* a report of progress or a completion, for a job or for nobody
FanBodies ==
  { b \in [jobId : PushIds \cup {Undef}, runID : PushIds \cup {Undef}, runId : PushIds \cup {Undef},
           status : {"pending", "completed"}, answer : {"a1", Undef}, error : {Undef}] :
      /\ b.jobId = b.runID /\ b.runID = b.runId
      /\ (b.answer # Undef <=> b.status = "completed") }

\* what sendChatMessage resolves with: a provisional answer and the job's
\* identifier under meta.runID or meta.jobId, or a final answer and neither
Responses ==
  { r \in [answer : {WorkingOnIt, "a1"}, runID : PushIds \cup {Undef}, jobId : PushIds \cup {Undef}] :
      /\ (r.runID = Undef \/ r.jobId = Undef)
      /\ (r.answer = WorkingOnIt <=> (r.runID # Undef \/ r.jobId # Undef)) }

Msg(role, content, runID, status) ==
  [role |-> role, content |-> content, runID |-> runID, status |-> status]

\* normalizeAnswer(answer)
normalizeAnswer(answer) ==
  IF ~Truthy(answer) THEN Empty
  ELSE IF answer = ArrayText THEN Joined
  ELSE answer

\* `Error: ${update.answer || 'Workflow failed'}`
ErrorContent(answer) ==
  CASE answer = "a1" -> "Error: a1"
    [] answer = "a2" -> "Error: a2"
    [] answer = ArrayText -> "Error: [\"x\",\"y\"]"
    [] OTHER -> "Error: Workflow failed"

\* subscribe(k) of useSSEUpdates as called from useChat: the connections and
\* the connection table after the call
AfterSubscribe(k) ==
  IF connectionsRef[k] # 0 THEN <<chans, connectionsRef>>
  ELSE <<[chans EXCEPT ![NewChan] = [path |-> k, cli |-> "active", srv |-> "none", wire |-> <<>>, got |-> 0, beat |-> FALSE]],
         [connectionsRef EXCEPT ![k] = NewChan]>>

\* the mount effect: subscribe('broadcast') once
MountBroadcast ==
  /\ variant = VBroadcast
  /\ ~broadcastSubscribedRef
  /\ \E c \in ChanIds : chans[c].cli = "free"
  /\ chans' = AfterSubscribe(BroadcastToken)[1]
  /\ connectionsRef' = AfterSubscribe(BroadcastToken)[2]
  /\ broadcastSubscribedRef' = TRUE
  /\ UNCHANGED <<realtime, serverVars, last, pollVars, activeSubscriptionsRef, pendingJobIdsRef,
                 messages, isLoading, chatError, inflight>>

\* sendMessage up to its await, the same in every useChat: the user's message
\* is appended and the trigger request is sent.  ChatInput is disabled while
\* isLoading.
SendMessage ==
  /\ ~isLoading
  /\ inflight < MaxInflight
  /\ Len(messages) + 2 <= MaxMsgs
  /\ messages' = Append(messages, Msg("user", "u", Undef, Undef))
  /\ isLoading' = TRUE
  /\ chatError' = Null
  /\ inflight' = inflight + 1
  /\ UNCHANGED <<realtime, serverVars, chans, last, hookVars, pollVars, activeSubscriptionsRef,
                 pendingJobIdsRef, broadcastSubscribedRef>>

\* sendMessage after sendChatMessage resolved: track the job and subscribe to
\* its stream when the response names one, append the assistant message
SendResolved(response) ==
  LET jobId == IF Truthy(response.runID) THEN response.runID ELSE response.jobId
      hasWorkflowMeta == Truthy(jobId)
      assistantMessage == Msg("assistant", response.answer,
                              IF hasWorkflowMeta THEN jobId ELSE Undef,
                              IF hasWorkflowMeta THEN "in_progress" ELSE Undef)
  IN /\ inflight > 0
     /\ inflight' = inflight - 1
     /\ IF hasWorkflowMeta
        THEN \* the backend issues an identifier once
             /\ \A c \in ChanIds : chans[c].path # jobId
             /\ \E c \in ChanIds : chans[c].cli = "free"
             /\ pendingJobIdsRef' = [pendingJobIdsRef EXCEPT ![jobId] = Len(messages) + 1]
             /\ activeSubscriptionsRef' = activeSubscriptionsRef \cup {jobId}
             /\ chans' = AfterSubscribe(jobId)[1]
             /\ connectionsRef' = AfterSubscribe(jobId)[2]
        ELSE UNCHANGED <<pendingJobIdsRef, activeSubscriptionsRef, chans, connectionsRef>>
     /\ messages' = Append(messages, assistantMessage)
     /\ isLoading' = FALSE
     /\ UNCHANGED <<realtime, serverVars, last, pollVars, chatError, broadcastSubscribedRef>>

\* sendMessage after sendChatMessage threw
SendRejected ==
  /\ inflight > 0
  /\ inflight' = inflight - 1
  /\ isLoading' = FALSE
  /\ chatError' = "Chat request failed"
  /\ UNCHANGED <<realtime, serverVars, chans, last, hookVars, pollVars, activeSubscriptionsRef,
                 pendingJobIdsRef, messages, broadcastSubscribedRef>>

\* handleSSEUpdate(subscriptionKey, update)
handleSSEUpdate(subscriptionKey, update) ==
  LET actualRunID == IF Truthy(update.runID) THEN update.runID ELSE subscriptionKey
      isBroadcast == subscriptionKey = BroadcastToken
      answerText == normalizeAnswer(update.answer)
      metaRunID == IF actualRunID # BroadcastToken THEN actualRunID ELSE Undef
      content == IF update.status = "error" THEN ErrorContent(update.answer)
                 ELSE IF answerText # Empty THEN answerText ELSE "Workflow completed"
  IN IF isBroadcast /\ Truthy(actualRunID) /\ actualRunID \in activeSubscriptionsRef
     THEN UNCHANGED <<activeSubscriptionsRef, pendingJobIdsRef, messages, isLoading>>
     ELSE IF answerText = Empty /\ update.status # "error"
     THEN UNCHANGED <<activeSubscriptionsRef, pendingJobIdsRef, messages, isLoading>>
     ELSE /\ IF ~isBroadcast /\ IsTerminal(update.status)
             THEN /\ pendingJobIdsRef' = [k \in DOMAIN pendingJobIdsRef |->
                                            IF k = actualRunID THEN 0 ELSE pendingJobIdsRef[k]]
                  /\ activeSubscriptionsRef' = activeSubscriptionsRef \ {actualRunID}
             ELSE UNCHANGED <<pendingJobIdsRef, activeSubscriptionsRef>>
          /\ messages' = Append(messages, Msg("assistant", content, metaRunID, update.status))
          /\ isLoading' = FALSE

\* clearChat: unsubscribe every tracked job, forget the tracking, empty the
\* message list and the error.  The Clear control is enabled at all times.
ClearChat ==
  /\ variant = VBroadcast
  /\ chans' = [c \in ChanIds |->
                 IF \E j \in activeSubscriptionsRef : connectionsRef[j] = c
                 THEN [chans[c] EXCEPT !.cli = "closed", !.wire = <<>>]
                 ELSE chans[c]]
  /\ connectionsRef' = [k \in StreamPaths |->
                          IF k \in activeSubscriptionsRef THEN 0 ELSE connectionsRef[k]]
  /\ activeSubscriptionsRef' = {}
  /\ pendingJobIdsRef' = [j \in RunIds |-> 0]
  /\ messages' = <<>>
  /\ chatError' = Null
  /\ UNCHANGED <<realtime, serverVars, last, pollVars, isLoading, broadcastSubscribedRef, inflight>>

\* eventSource.onmessage of a connection opened by useChat: onUpdate is
\* handleSSEUpdate; the connection is closed and forgotten after a terminal
\* update
ChatOnMessage(c) ==
  LET jobId == chans[c].path
      update == Head(chans[c].wire)
  IN /\ variant = VBroadcast
     /\ chans[c].cli = "active"
     /\ chans[c].wire # <<>>
     /\ Len(messages) < MaxMsgs
     /\ handleSSEUpdate(jobId, update)
     /\ IF IsTerminal(update.status)
        THEN /\ chans' = [chans EXCEPT ![c].cli = "closed", ![c].wire = <<>>, ![c].got = @ + 1]
             /\ connectionsRef' = [connectionsRef EXCEPT ![jobId] = 0]
        ELSE /\ chans' = [chans EXCEPT ![c].wire = Tail(@)]
             /\ UNCHANGED connectionsRef
     /\ UNCHANGED <<realtime, serverVars, last, pollVars, chatError, broadcastSubscribedRef, inflight>>

\* ------------------------------------- sendChatMessage of the SSE variant
\* what the trigger request comes back with: the fetch throws, the response
\* is not ok, or it is ok and carries a JSON body
NetworkError == "network-error"
HttpError == "http-error"
Ok == "ok"

\* job identifiers a backend may hand out: a two-character one, the same
\* padded with blanks, and a one-character (or one-digit numeric) one
TriggerIds == {"r1", " r1 ", "7"}
\* statuses a backend may report, in several spellings
TriggerStatuses ==
  {Undef, "in_progress", "In Progress", "IN-PROGRESS", "error", "Failed", " FAILURE ", "completed"}

\* where a response carries its identifier: under one of the three keys, or
\* nowhere
IdPlacements ==
  {[runID |-> Undef, runId |-> Undef, jobId |-> Undef]}
    \cup {[runID |-> i, runId |-> Undef, jobId |-> Undef] : i \in TriggerIds}
    \cup {[runID |-> Undef, runId |-> i, jobId |-> Undef] : i \in TriggerIds}
    \cup {[runID |-> Undef, runId |-> Undef, jobId |-> i] : i \in TriggerIds}

Triggers ==
  {[ok |-> k, runID |-> Undef, runId |-> Undef, jobId |-> Undef, status |-> Undef,
    answer |-> Undef] : k \in {HttpError, NetworkError}}
    \cup {[ok |-> Ok, runID |-> p.runID, runId |-> p.runId, jobId |-> p.jobId, status |-> st,
           answer |-> a] : p \in IdPlacements, st \in TriggerStatuses, a \in {"hello", Undef}}

\* `a ?? b`
Nullish(x) == x \in {Undef, Null}

\* String(x ?? '').toLowerCase().trim()
LowerTrim(x) ==
  CASE Nullish(x) -> Empty
    [] x = "In Progress" -> "in progress"
    [] x = "IN-PROGRESS" -> "in-progress"
    [] x = "Failed" -> "failed"
    [] x = " FAILURE " -> "failure"
    [] x = "Done " -> "done"
    [] OTHER -> x

\* x.replace(/[\s_-]/g, '')
StripSeparators(x) ==
  CASE x \in {"in progress", "in-progress", "in_progress"} -> "inprogress"
    [] OTHER -> x

\* String(x).trim()
Trim(x) ==
  CASE x = " r1 " -> "r1"
    [] OTHER -> x

\* x.length
Length(x) ==
  CASE x = Empty -> 0
    [] x = "7" -> 1
    [] x = "r1" -> 2
    [] OTHER -> 4

WorkflowFailed == "Workflow execution failed"
RequestFailed == "Chat request failed: "
FailedToFetch == "Failed to fetch"
\* JSON.stringify(n8nData, null, 2)
RawJson == "<the response as JSON text>"

\* sendChatMessage(request) of the polling variant: it throws, hands over to
\* pollForResult(runId), or resolves with an answer
sendChatMessagePolling(t) ==
  LET runId == IF ~Nullish(t.runID) THEN t.runID ELSE t.runId
      normalizedTriggerStatus == LowerTrim(t.status)
      directAnswer == t.answer
      hasRunId == ~Nullish(runId) /\ Length(Trim(runId)) > 0
      errorStatuses == {"error", "failed", "failure"}
      outcome(threw, polls, a, id) == [threw |-> threw, polls |-> polls, answer |-> a, runID |-> id]
  IN IF t.ok = NetworkError THEN outcome(TRUE, FALSE, FailedToFetch, Undef)
     ELSE IF t.ok = HttpError THEN outcome(TRUE, FALSE, RequestFailed, Undef)
     ELSE IF normalizedTriggerStatus \in errorStatuses
     THEN outcome(TRUE, FALSE, IF Truthy(directAnswer) THEN directAnswer ELSE WorkflowFailed, Undef)
     ELSE IF hasRunId /\ ~Truthy(directAnswer) THEN outcome(FALSE, TRUE, Undef, runId)
     ELSE IF Truthy(directAnswer)
     THEN outcome(FALSE, FALSE, directAnswer, IF hasRunId THEN runId ELSE Undef)
     ELSE outcome(FALSE, FALSE, RawJson, Undef)

\* a sendChatMessage that looks for a usable answer before it looks at the
\* status
sendChatMessage_AnswerFirst(t) ==
  LET runId == IF ~Nullish(t.runID) THEN t.runID
               ELSE IF ~Nullish(t.runId) THEN t.runId ELSE t.jobId
      normalizedTriggerStatus == LowerTrim(t.status)
      directAnswer == t.answer
      runIdStr == IF ~Nullish(runId) THEN Trim(runId) ELSE Empty
      normalizedStatus == StripSeparators(normalizedTriggerStatus)
      isValidWorkflowRun == Length(runIdStr) > 1 /\ normalizedStatus = "inprogress"
      errorStatuses == {"error", "failed", "failure"}
      throw(m) == [threw |-> TRUE, message |-> m, answer |-> Undef, runID |-> Undef, jobId |-> Undef]
      return(a, id) == [threw |-> FALSE, message |-> Undef, answer |-> a, runID |-> id, jobId |-> id]
  IN IF t.ok = NetworkError THEN throw(FailedToFetch)
     ELSE IF t.ok = HttpError THEN throw(RequestFailed)
     ELSE IF isValidWorkflowRun
     THEN return(IF Truthy(directAnswer) THEN directAnswer ELSE WorkingOnIt, runIdStr)
     ELSE IF Truthy(directAnswer) THEN return(directAnswer, Undef)
     ELSE IF normalizedTriggerStatus \in errorStatuses THEN throw(WorkflowFailed)
     ELSE return(RawJson, Undef)

\* a sendChatMessage that hands the identifier of the response on with a
\* direct answer too
sendChatMessage_KeepsRunId(t) ==
  LET runId == IF ~Nullish(t.runID) THEN t.runID
               ELSE IF ~Nullish(t.runId) THEN t.runId ELSE t.jobId
      normalizedTriggerStatus == LowerTrim(t.status)
      directAnswer == t.answer
      runIdStr == IF ~Nullish(runId) THEN Trim(runId) ELSE Empty
      normalizedStatus == StripSeparators(normalizedTriggerStatus)
      isValidWorkflowRun == Length(runIdStr) > 1 /\ normalizedStatus = "inprogress"
      errorStatuses == {"error", "failed", "failure"}
      throw(m) == [threw |-> TRUE, message |-> m, answer |-> Undef, runID |-> Undef, jobId |-> Undef]
      return(a, id) == [threw |-> FALSE, message |-> Undef, answer |-> a, runID |-> id, jobId |-> id]
  IN IF t.ok = NetworkError THEN throw(FailedToFetch)
     ELSE IF t.ok = HttpError THEN throw(RequestFailed)
     ELSE IF normalizedTriggerStatus \in errorStatuses
     THEN throw(IF Truthy(directAnswer) THEN directAnswer ELSE WorkflowFailed)
     ELSE IF isValidWorkflowRun
     THEN return(IF Truthy(directAnswer) THEN directAnswer ELSE WorkingOnIt, runIdStr)
     ELSE IF Truthy(directAnswer)
     THEN return(directAnswer, IF Length(runIdStr) > 1 THEN runIdStr ELSE Undef)
     ELSE return(RawJson, Undef)

\* sendChatMessage(request) of the SSE variant, as a function of what the
\* trigger request came back with: it throws a message, or resolves with an
\* answer and, for a workflow run, the run's identifier under meta.runID and
\* meta.jobId
sendChatMessage(t) ==
  LET runId == IF ~Nullish(t.runID) THEN t.runID
               ELSE IF ~Nullish(t.runId) THEN t.runId ELSE t.jobId
      normalizedTriggerStatus == LowerTrim(t.status)
      directAnswer == t.answer
      runIdStr == IF ~Nullish(runId) THEN Trim(runId) ELSE Empty
      normalizedStatus == StripSeparators(normalizedTriggerStatus)
      isValidWorkflowRun == Length(runIdStr) > 1 /\ normalizedStatus = "inprogress"
      errorStatuses == {"error", "failed", "failure"}
      throw(m) == [threw |-> TRUE, message |-> m, answer |-> Undef, runID |-> Undef, jobId |-> Undef]
      return(a, id) == [threw |-> FALSE, message |-> Undef, answer |-> a, runID |-> id, jobId |-> id]
  IN IF t.ok = NetworkError THEN throw(FailedToFetch)
     ELSE IF t.ok = HttpError THEN throw(RequestFailed)
     ELSE IF normalizedTriggerStatus \in errorStatuses
     THEN throw(IF Truthy(directAnswer) THEN directAnswer ELSE WorkflowFailed)
     ELSE IF isValidWorkflowRun
     THEN return(IF Truthy(directAnswer) THEN directAnswer ELSE WorkingOnIt, runIdStr)
     ELSE IF Truthy(directAnswer) THEN return(directAnswer, Undef)
     ELSE return(RawJson, Undef)

\* a catch block that leaves isLoading as it is
SendThrew_KeepsLoading(message) ==
  /\ inflight > 0
  /\ inflight' = inflight - 1
  /\ chatError' = message
  /\ UNCHANGED <<realtime, serverVars, chans, last, hookVars, pollVars, activeSubscriptionsRef,
                 pendingJobIdsRef, messages, broadcastSubscribedRef, isLoading>>

\* the catch block of sendMessage: the message of what was thrown goes to
\* state.error
SendThrew(message) ==
  /\ inflight > 0
  /\ inflight' = inflight - 1
  /\ isLoading' = FALSE
  /\ chatError' = message
  /\ UNCHANGED <<realtime, serverVars, chans, last, hookVars, pollVars, activeSubscriptionsRef,
                 pendingJobIdsRef, messages, broadcastSubscribedRef>>

\* sendMessage from its await on: sendChatMessage settles on what the trigger
\* request came back with
SendSettled(t) ==
  IF sendChatMessage(t).threw
  THEN SendThrew(sendChatMessage(t).message)
  ELSE SendResolved([answer |-> sendChatMessage(t).answer,
                     runID |-> sendChatMessage(t).runID,
                     jobId |-> sendChatMessage(t).jobId])

\* ------------------------------------------------ useChat that only polls
\* trigger responses in the runs of the polling useChat
PollTriggers ==
  {[ok |-> k, runID |-> Undef, runId |-> Undef, jobId |-> Undef, status |-> Undef,
    answer |-> Undef] : k \in {HttpError, NetworkError}}
    \cup {[ok |-> Ok, runID |-> id, runId |-> Undef, jobId |-> Undef, status |-> st,
           answer |-> a] : id \in PushIds \cup {Undef},
                           st \in {Undef, "in_progress", "Failed", "completed"},
                           a \in {"hello", Undef}}

\* sendMessage of the polling useChat from its await on, up to the point where
\* sendChatMessage has thrown, has returned an answer, or waits for
\* pollForResult
SendSettledPolling(t) ==
  LET r == sendChatMessagePolling(t)
  IN /\ variant = VEdge
     /\ inflight > 0
     /\ pollPc \in {"idle", "settled"}
     /\ IF r.threw THEN SendThrew(r.answer)
        ELSE IF r.polls THEN StartPoll(PNormalizing, r.runID)
        ELSE SendResolved([answer |-> r.answer, runID |-> Undef, jobId |-> Undef])

\* pollForResult has returned or thrown: sendChatMessage hands the outcome on
\* and sendMessage appends the answer, or its catch block stores the message.
\* A run follows one pollForResult call.
SendPolled ==
  /\ variant = VEdge
  /\ inflight > 0
  /\ pollPc \in {"resolved", "rejected"}
  /\ inflight' = inflight - 1
  /\ isLoading' = FALSE
  /\ pollPc' = "settled"
  /\ IF pollPc = "rejected"
     THEN chatError' = pollResult /\ messages' = messages
     ELSE chatError' = chatError
          /\ messages' = Append(messages, Msg("assistant", pollResult, Undef, Undef))
  /\ UNCHANGED <<realtime, serverVars, chans, last, hookVars, pollKind, pollJob, attempt, fetches,
                 polled, pollResult, activeSubscriptionsRef, pendingJobIdsRef,
                 broadcastSubscribedRef>>

\* ------------------------------------------ useChat of the main application
\* what the automation backend posts for a submitted job: a report of
\* progress, a completion with its answer, a failure with or without a detail
AppBodies ==
  { b \in [jobId : PushIds, runID : PushIds, runId : PushIds,
           status : StatusVals, answer : {"a1", Undef}, error : ErrorIn] :
      /\ (b.answer # Undef <=> b.status = "completed")
      /\ (b.error # Undef => b.status = "error") }

\* the detail an error turn shows: the hook deployed with the
\* broadcast-capable router reads update.answer, the one deployed with the
\* job-only router reads update.error
ErrorDetail(update) == IF variant = VJob THEN update.error ELSE update.answer

\* `Error: ${detail || 'Workflow failed'}`
ErrorTurn(detail) ==
  CASE detail = "boom" -> "Error: boom"
    [] Truthy(detail) -> ErrorContent(detail)
    [] OTHER -> "Error: Workflow failed"

\* a handler that puts the update in the place of the job's provisional message
handleSSEUpdateApp_InPlace(runID, update) ==
  LET answerText == normalizeAnswer(update.answer)
      content == IF update.status = "error" THEN ErrorTurn(ErrorDetail(update))
                 ELSE IF answerText # Empty THEN answerText ELSE "Workflow completed"
      message == Msg("assistant", content, runID, update.status)
  IN /\ IF IsTerminal(update.status)
        THEN /\ pendingJobIdsRef' = [pendingJobIdsRef EXCEPT ![runID] = 0]
             /\ activeSubscriptionsRef' = activeSubscriptionsRef \ {runID}
        ELSE UNCHANGED <<pendingJobIdsRef, activeSubscriptionsRef>>
     /\ messages' = IF pendingJobIdsRef[runID] \in 1..Len(messages)
                    THEN [messages EXCEPT ![pendingJobIdsRef[runID]] = message]
                    ELSE Append(messages, message)
     /\ isLoading' = FALSE

\* handleSSEUpdate(runID, update) of the main hook: the tracking of a job is
\* dropped on a terminal update, and every update is appended as a message
\* of its own
handleSSEUpdateApp(runID, update) ==
  LET answerText == normalizeAnswer(update.answer)
      content == IF update.status = "error" THEN ErrorTurn(ErrorDetail(update))
                 ELSE IF answerText # Empty THEN answerText ELSE "Workflow completed"
  IN /\ IF IsTerminal(update.status)
        THEN /\ pendingJobIdsRef' = [pendingJobIdsRef EXCEPT ![runID] = 0]
             /\ activeSubscriptionsRef' = activeSubscriptionsRef \ {runID}
        ELSE UNCHANGED <<pendingJobIdsRef, activeSubscriptionsRef>>
     /\ messages' = Append(messages, Msg("assistant", content, runID, update.status))
     /\ isLoading' = FALSE

\* eventSource.onmessage of a connection opened by the main hook
AppOnMessage(c) ==
  LET jobId == chans[c].path
      update == Head(chans[c].wire)
  IN /\ variant # VEdge
     /\ chans[c].cli = "active"
     /\ chans[c].wire # <<>>
     /\ jobId \in RunIds
     /\ Len(messages) < MaxMsgs
     /\ handleSSEUpdateApp(jobId, update)
     /\ IF IsTerminal(update.status)
        THEN /\ chans' = [chans EXCEPT ![c].cli = "closed", ![c].wire = <<>>, ![c].got = @ + 1]
             /\ connectionsRef' = [connectionsRef EXCEPT ![jobId] = 0]
        ELSE /\ chans' = [chans EXCEPT ![c].wire = Tail(@)]
             /\ UNCHANGED connectionsRef
     /\ UNCHANGED <<realtime, serverVars, last, pollVars, chatError, broadcastSubscribedRef, inflight>>

\* ---------------------------------------------- useWebhookRealtime (client)
COMPLETED_STATUSES == {"completed", "complete", "done", "success"}

\* a payload without a new row
NoRow == [run_id |-> Undef, session_id |-> Undef, status |-> Undef]
\* no call of onUpdate so far
NoCall == [update |-> NoRow, sessionId |-> Undef]
Unmounted == [mounted |-> FALSE, channel |-> FALSE, sessionId |-> Undef, completedOnly |-> TRUE,
              onUpdate |-> NoCall]

\* the sessionId option: absent, empty, or a session
SessionOpts == {Undef, Empty, "s1", "s2"}
\* payload.new of a change of webhook_job_updates: nothing, or a row, whose
\* session_id is null or the identifier of a session
Changes ==
  {NoRow} \cup [run_id : RunIds, session_id : {Null, "s1", "s2"}, status : {"completed", "Done ", "pending"}]

\* the postgres_changes callback without the session filter
Passes_AnySession(sessionId, completedOnly, update) ==
  /\ update # NoRow
  /\ ~(completedOnly /\ LowerTrim(update.status) \notin COMPLETED_STATUSES)

\* the postgres_changes callback up to its last line: TRUE when it gets to
\* onUpdateRef.current(update)
Passes(sessionId, completedOnly, update) ==
  /\ update # NoRow
  /\ ~(Truthy(sessionId) /\ Truthy(update.session_id) /\ update.session_id # sessionId)
  /\ ~(completedOnly /\ LowerTrim(update.status) \notin COMPLETED_STATUSES)

\* the effect of useWebhookRealtime runs: at mount, and again (after its
\* cleanup removed the channel) when sessionId or completedOnly changed
RealtimeEffect(sessionId, completedOnly) ==
  /\ ~realtime.mounted \/ <<sessionId, completedOnly>> # <<realtime.sessionId, realtime.completedOnly>>
  /\ realtime' = [realtime EXCEPT !.mounted = TRUE, !.channel = TRUE, !.sessionId = sessionId,
                                  !.completedOnly = completedOnly]
  /\ UNCHANGED <<serverVars, chans, last, hookVars, appVars>>

\* unsubscribe(), and (gone) the cleanup of the effect at unmount
RealtimeUnsubscribe(gone) ==
  /\ realtime.mounted
  /\ gone \/ realtime.channel
  /\ realtime' = [realtime EXCEPT !.channel = FALSE, !.mounted = ~gone]
  /\ UNCHANGED <<serverVars, chans, last, hookVars, appVars>>

\* the postgres_changes callback
RealtimeChange(update) ==
  /\ realtime.channel
  /\ realtime' = IF Passes(realtime.sessionId, realtime.completedOnly, update)
                 THEN [realtime EXCEPT !.onUpdate = [update |-> update, sessionId |-> realtime.sessionId]]
                 ELSE realtime
  /\ UNCHANGED <<serverVars, chans, last, hookVars, appVars>>

Init ==
  /\ variant \in Variants
  /\ jobUpdates = [j \in StoreKeys |-> NoRec]
  /\ sseClients = [k \in RegKeys |-> <<>>]
  /\ timers = [j \in StoreKeys |-> 0]
  /\ chans = [c \in ChanIds |-> FreeChan]
  /\ last = Resp("none", Undef, 0, Undef)
  /\ connectionsRef = [k \in StreamPaths |-> 0]
  /\ realtime = Unmounted
  /\ pollKind = Undef
  /\ pollJob = Undef
  /\ pollPc = "idle"
  /\ attempt = 0
  /\ fetches = 0
  /\ polled = NotPolled
  /\ pollResult = Undef
  /\ activeSubscriptionsRef = {}
  /\ pendingJobIdsRef = [j \in RunIds |-> 0]
  /\ messages = <<>>
  /\ isLoading = FALSE
  /\ chatError = Null
  /\ broadcastSubscribedRef = FALSE
  /\ inflight = 0

\* the server, its stream connections and a useSSEUpdates client that
\* subscribes and listens
Next ==
  \/ \E b \in PushBodies : PostUpdateBroadcast(b)
  \/ \E b \in PushBodies : PostUpdateJob(b)
  \/ \E b \in PushBodies : PostUpdateEdge(b)
  \/ \E j \in PushIds : TimerFire(j)
  \/ \E c \in ChanIds : StreamConnectBroadcast(c)
  \/ \E c \in ChanIds : StreamConnectJob(c)
  \/ \E c \in ChanIds : ReqClose(c)
  \/ \E k \in PushPaths : Subscribe(k)
  \/ \E c \in ChanIds : OnMessage(c)

Spec == Init /\ [][Next]_vars

\* the same with a client that also unsubscribes
NextHook ==
  \/ Next
  \/ \E k \in PushPaths : Unsubscribe(k)

SpecHook == Init /\ [][NextHook]_vars

\* the Update Ingress under bodies that carry the identifier under one key,
\* with subscribers that connect and listen
NextIngress ==
  \/ \E b \in IngressBodies : PostUpdateBroadcast(b)
  \/ \E b \in IngressBodies : PostUpdateJob(b)
  \/ \E b \in IngressBodies : PostUpdateEdge(b)
  \/ \E j \in PushIds : TimerFire(j)
  \/ \E c \in ChanIds : StreamConnectBroadcast(c)
  \/ \E c \in ChanIds : StreamConnectJob(c)
  \/ \E k \in PushPaths : Subscribe(k)
  \/ \E c \in ChanIds : OnMessage(c)

SpecIngress == Init /\ [][NextIngress]_vars

\* the Update Ingress, the Job Store, its deletion timers and the status query
NextStore ==
  \/ \E b \in Bodies : PostUpdateBroadcast(b)
  \/ \E b \in Bodies : PostUpdateJob(b)
  \/ \E b \in Bodies : PostUpdateEdge(b)
  \/ \E j \in RunIds : TimerFire(j)
  \/ \E j \in RunIds : GetStatus(j)

SpecStore == Init /\ [][NextStore]_vars

\* the edge function, its Job Store and one pollForResult call
InitPoll == Init /\ variant = VEdge

PollIteration ==
  \/ \E ok \in BOOLEAN : \E d \in PollResponses : PollAttemptBackend(ok, d)
  \/ \E ok \in BOOLEAN : PollAttemptEdge(ok)
  \/ \E ok \in BOOLEAN : PollAttemptNormalizing(ok)
  \/ PollTimeout

NextPoll ==
  \/ \E b \in PollBodies : PostUpdateEdge(b)
  \/ \E j \in PushIds : TimerFire(j)
  \/ \E k \in {PBackend, PStrict, PNormalizing} : \E j \in PushIds : StartPoll(k, j)
  \/ PollIteration

\* a started loop is not suspended forever: its timers and its requests
\* come back
SpecPoll == InitPoll /\ [][NextPoll]_vars /\ WF_vars(PollIteration)

\* the broadcast-capable router with the broadcast-enabled useChat as its
\* client
InitChat == Init /\ variant = VBroadcast

NextChat ==
  \/ \E b \in ChatBodies : PostUpdateBroadcast(b)
  \/ \E j \in PushIds : TimerFire(j)
  \/ \E c \in ChanIds : StreamConnectBroadcast(c)
  \/ \E c \in ChanIds : ReqClose(c)
  \/ MountBroadcast
  \/ SendMessage
  \/ \E r \in Responses : SendResolved(r)
  \/ SendRejected
  \/ \E c \in ChanIds : ChatOnMessage(c)

SpecChat == InitChat /\ [][NextChat]_vars

\* the same with a user who also clears the conversation
NextClear ==
  \/ NextChat
  \/ ClearChat

SpecClear == InitChat /\ [][NextClear]_vars

\* the broadcast-capable router under bodies that leave the status out or
\* supply one that is not completed
InitInfer == Init /\ variant = VBroadcast

NextInfer ==
  \/ \E b \in InferBodies : PostUpdateBroadcast(b)
  \/ \E j \in PushIds : TimerFire(j)
  \/ \E c \in ChanIds : StreamConnectBroadcast(c)
  \/ \E c \in ChanIds : ReqClose(c)
  \/ \E k \in PushPaths : Subscribe(k)
  \/ \E c \in ChanIds : OnMessage(c)

SpecInfer == InitInfer /\ [][NextInfer]_vars

\* the broadcast-capable router when the backend may use the reserved string
\* as a job identifier
NextReserved ==
  \/ \E b \in ReservedBodies : PostUpdateBroadcast(b)
  \/ \E j \in ReservedIds : TimerFire(j)
  \/ \E c \in ChanIds : StreamConnectBroadcast(c)
  \/ \E c \in ChanIds : ReqClose(c)
  \/ \E k \in PushPaths : Subscribe(k)
  \/ \E c \in ChanIds : OnMessage(c)

SpecReserved == InitInfer /\ [][NextReserved]_vars

\* the two Express routers, each with the main hook deployed with it
NextApp ==
  \/ \E b \in AppBodies : PostUpdateBroadcast(b)
  \/ \E b \in AppBodies : PostUpdateJob(b)
  \/ \E c \in ChanIds : StreamConnectBroadcast(c)
  \/ \E c \in ChanIds : StreamConnectJob(c)
  \/ \E c \in ChanIds : ReqClose(c)
  \/ SendMessage
  \/ \E t \in Triggers : SendSettled(t)
  \/ \E c \in ChanIds : AppOnMessage(c)

\* the main hook is deployed with either Express router
InitApp == Init /\ variant \in {VBroadcast, VJob}

SpecApp == InitApp /\ [][NextApp]_vars

\* submissions of the main hook alone: what sendMessage does with each trigger
\* response, the connections it opens, and clearChat
NextSend ==
  \/ SendMessage
  \/ \E t \in Triggers : SendSettled(t)
  \/ \E c \in ChanIds : StreamConnectBroadcast(c)
  \/ \E c \in ChanIds : StreamConnectJob(c)
  \/ \E c \in ChanIds : ReqClose(c)
  \/ ClearChat

SpecSend == InitApp /\ [][NextSend]_vars

\* the two Express routers with several readers per job
InitFanout == Init /\ variant \in {VBroadcast, VJob}

NextReaders ==
  \/ \E b \in FanBodies : PostUpdateBroadcast(b)
  \/ \E b \in FanBodies : PostUpdateJob(b)
  \/ \E c \in ChanIds : StreamConnectBroadcast(c)
  \/ \E c \in ChanIds : StreamConnectJob(c)
  \/ \E c \in ChanIds : ReqClose(c)
  \/ \E k \in PushIds : RawSubscribe(k)
  \/ \E c \in ChanIds : RawRead(c)

\* ... where sockets may fail
NextFanout ==
  \/ NextReaders
  \/ \E c \in ChanIds : SocketBreaks(c)

SpecFanout == InitFanout /\ [][NextFanout]_vars

\* the same with distinguishable updates of one job
NextOrder ==
  \/ \E b \in OrderBodies : PostUpdateBroadcast(b)
  \/ \E b \in OrderBodies : PostUpdateJob(b)
  \/ \E c \in ChanIds : StreamConnectBroadcast(c)
  \/ \E c \in ChanIds : StreamConnectJob(c)
  \/ \E c \in ChanIds : ReqClose(c)
  \/ \E k \in PushIds : RawSubscribe(k)
  \/ \E c \in ChanIds : RawRead(c)

SpecOrder == InitFanout /\ [][NextOrder]_vars

\* ... where readers drop their connections
NextRace ==
  \/ NextReaders
  \/ \E c \in ChanIds : RawClose(c)

SpecRace == InitFanout /\ [][NextRace]_vars

\* the two Express routers and a useSSEUpdates client that subscribes,
\* listens and unsubscribes
NextUnsub ==
  \/ \E b \in FanBodies : PostUpdateBroadcast(b)
  \/ \E b \in FanBodies : PostUpdateJob(b)
  \/ \E c \in ChanIds : StreamConnectBroadcast(c)
  \/ \E c \in ChanIds : StreamConnectJob(c)
  \/ \E c \in ChanIds : ReqClose(c)
  \/ \E k \in PushPaths : Subscribe(k)
  \/ \E c \in ChanIds : OnMessage(c)
  \/ \E k \in PushPaths : Unsubscribe(k)

SpecUnsub == InitFanout /\ [][NextUnsub]_vars

\* updates whose status is spelled the way other parts of the system spell a
\* finished or failed job
AliasStatuses == {"pending", "completed", "done", "COMPLETED", "failed"}
AliasBodies ==
  { b \in [jobId : PushIds \cup {Undef}, runID : PushIds \cup {Undef}, runId : PushIds \cup {Undef},
           status : AliasStatuses, answer : {"a1", Undef}, error : {Undef}] :
      /\ b.jobId = b.runID /\ b.runID = b.runId
      /\ (b.answer # Undef <=> b.status \in {"completed", "done", "COMPLETED"}) }

\* the two Express routers and a useSSEUpdates client, with those updates
NextAlias ==
  \/ \E b \in AliasBodies : PostUpdateBroadcast(b)
  \/ \E b \in AliasBodies : PostUpdateJob(b)
  \/ \E c \in ChanIds : StreamConnectBroadcast(c)
  \/ \E c \in ChanIds : StreamConnectJob(c)
  \/ \E c \in ChanIds : ReqClose(c)
  \/ \E k \in PushPaths : Subscribe(k)
  \/ \E c \in ChanIds : OnMessage(c)
  \/ \E j \in PushIds : TimerFire(j)

SpecAlias == InitFanout /\ [][NextAlias]_vars

\* the three servers with stream readers, record expiry and status queries
NextQuery ==
  \/ \E b \in FanBodies : PostUpdateBroadcast(b)
  \/ \E b \in FanBodies : PostUpdateJob(b)
  \/ \E b \in FanBodies : PostUpdateEdge(b)
  \/ \E j \in PushIds : TimerFire(j)
  \/ \E c \in ChanIds : StreamConnectBroadcast(c)
  \/ \E c \in ChanIds : StreamConnectJob(c)
  \/ \E c \in ChanIds : ReqClose(c)
  \/ \E k \in PushPaths : RawSubscribe(k)
  \/ \E j \in RunIds : GetStatus(j)

SpecQuery == Init /\ [][NextQuery]_vars

\* the two Express routers with readers, failing sockets and heartbeats
NextBeat ==
  \/ NextFanout
  \/ \E c \in ChanIds : Heartbeat(c)

SpecBeat == InitFanout /\ [][NextBeat]_vars

\* updates of two jobs, and trigger responses that start them
JobBodies ==
  { b \in [jobId : RunIds, runID : RunIds, runId : RunIds,
           status : {"pending", "completed"}, answer : {"a1", Undef}, error : {Undef}] :
      /\ b.jobId = b.runID /\ b.runID = b.runId
      /\ (b.answer # Undef <=> b.status = "completed") }
JobResponses == {[answer |-> WorkingOnIt, runID |-> j, jobId |-> j] : j \in RunIds}

\* the two Express routers and the main hook with several jobs under way
NextJobs ==
  \/ \E b \in JobBodies : PostUpdateBroadcast(b)
  \/ \E b \in JobBodies : PostUpdateJob(b)
  \/ \E c \in ChanIds : StreamConnectBroadcast(c)
  \/ \E c \in ChanIds : StreamConnectJob(c)
  \/ \E c \in ChanIds : ReqClose(c)
  \/ SendMessage
  \/ \E r \in JobResponses : SendResolved(r)
  \/ \E c \in ChanIds : AppOnMessage(c)

SpecJobs == InitFanout /\ [][NextJobs]_vars

\* the automation backend reports the job of a polling submission as done
DoneBodies ==
  {[jobId |-> Undef, runID |-> id, runId |-> Undef, status |-> "completed", answer |-> "a1",
    error |-> Undef] : id \in PushIds}

\* submissions and how they end: the main hook with an Express router, the
\* polling hook with the edge function
NextSubmit ==
  \/ SendMessage
  \/ \E t \in Triggers : variant # VEdge /\ SendSettled(t)
  \/ \E t \in PollTriggers : SendSettledPolling(t)
  \/ \E b \in DoneBodies : PostUpdateEdge(b)
  \/ \E ok \in BOOLEAN : PollAttemptNormalizing(ok)
  \/ PollTimeout
  \/ SendPolled

SpecSubmit == Init /\ [][NextSubmit]_vars



\* the job-only router and a useSSEUpdates client whose connections may fail
InitConn == Init /\ variant = VJob

ConnBodies == {b \in FanBodies : b.jobId # Undef}

NextConn ==
  \/ \E b \in ConnBodies : PostUpdateJob(b)
  \/ \E c \in ChanIds : StreamConnectJob(c)
  \/ \E c \in ChanIds : ReqClose(c)
  \/ \E c \in ChanIds : SocketBreaks(c)
  \/ \E k \in RunIds : Subscribe(k)
  \/ \E c \in ChanIds : OnMessage(c)
  \/ \E k \in RunIds : Unsubscribe(k)
  \/ \E c \in ChanIds : \E closed \in BOOLEAN : OnError(c, closed)

SpecConn == InitConn /\ [][NextConn]_vars

\* useWebhookRealtime and the changes of the table it listens to
InitRealtime == Init /\ variant = VEdge

NextRealtime ==
  \/ \E s \in SessionOpts : \E co \in BOOLEAN : RealtimeEffect(s, co)
  \/ \E gone \in BOOLEAN : RealtimeUnsubscribe(gone)
  \/ \E u \in Changes : RealtimeChange(u)

SpecRealtime == InitRealtime /\ [][NextRealtime]_vars

\* the main hook with several jobs under way and a Clear control
NextConv ==
  \/ \E b \in JobBodies : PostUpdateBroadcast(b)
  \/ \E b \in JobBodies : PostUpdateJob(b)
  \/ \E c \in ChanIds : StreamConnectBroadcast(c)
  \/ \E c \in ChanIds : StreamConnectJob(c)
  \/ SendMessage
  \/ \E r \in JobResponses : SendResolved(r)
  \/ \E c \in ChanIds : AppOnMessage(c)
  \/ ClearChat

SpecConv == InitFanout /\ [][NextConv]_vars

Registered(c) == \E k \in RegKeys : \E i \in 1..Len(sseClients[k]) : sseClients[k][i] = c

\* ---------------------------------------------------------------- C1
\* C1: once the Job Store holds a record with status completed or error for a
\* job identifier, a later ingress call for that identifier leaves the record's
\* status and answer unchanged for as long as the record exists.
C1_TerminalImmutable ==
  [][\A j \in RunIds :
       (IsTerminal(jobUpdates[j].status) /\ jobUpdates'[j] # NoRec)
         => /\ jobUpdates'[j].status = jobUpdates[j].status
            /\ jobUpdates'[j].answer = jobUpdates[j].answer]_vars

\* ---------------------------------------------------------------- C2
\* the server handles the stream request of connection c in this step
Connects(c) == chans[c].srv = "none" /\ chans'[c].srv # "none"

\* the stream path of connection c addresses a job, not the broadcast channel
JobPath(c) == ~(variant = VBroadcast /\ chans[c].path = BroadcastToken)

ReachedTerminal(j) ==
  \/ IsTerminal(jobUpdates[j].status)
  \/ timers[j] > 0
  \/ (last.op = "timer" /\ last.key = j)

C6_Cleanup ==
  [][\A j \in RunIds :
       /\ timers'[j] < timers[j]
            => /\ StatusBody(jobUpdates', j) = PendingBody
               /\ StatusBody(jobUpdates', j) = StatusBody([i \in RunIds |-> NoRec], j)
       /\ (StatusBody(jobUpdates, j) = PendingBody /\ last'.op # "update")
            => StatusBody(jobUpdates', j) = PendingBody]_vars

\* C6 witness: the timer of a terminal ingress has just fired and a status
\* query for that job would answer pending
C6_Witness ==
  /\ last.op = "timer"
  /\ StatusBody(jobUpdates, last.key) = PendingBody

\* ---------------------------------------------------------------- C10
\* the ingress call with body b is handled in this step
IngressStep(b) == PostUpdateBroadcast(b) \/ PostUpdateJob(b) \/ PostUpdateEdge(b)

\* the job identifier the deployed variant resolves from a body
ResolvedId(b) ==
  IF variant = VBroadcast THEN b.runID
  ELSE IF variant = VJob THEN b.jobId
  ELSE IF Truthy(b.runID) THEN b.runID ELSE b.runId

\* the body has no resolvable job identifier or no status
Malformed(b) == ~Truthy(ResolvedId(b)) \/ ~Truthy(b.status)

\* the step answers 400 and changes nothing on the server
Rejected == last'.code = 400 /\ UNCHANGED <<jobUpdates, sseClients, timers, chans>>

\* C10 as stated: in every variant an ingress call without a resolvable job
\* identifier or without a status is answered 400 and changes nothing.
C10_RejectsMalformed ==
  [][last'.op = "update" =>
       \A b \in IngressBodies : (Malformed(b) /\ IngressStep(b)) => Rejected]_vars

\* C10 amended: in the job-only Express router and in the edge function an
\* ingress call without a resolvable job identifier or without a status is
\* answered 400 and leaves the Job Store, the registry, the timers and every
\* connection unchanged.
C10_ValidatingVariantsReject ==
  [][(variant \in {VJob, VEdge} /\ last'.op = "update") =>
       \A b \in IngressBodies : (Malformed(b) /\ IngressStep(b)) => Rejected]_vars

\* C10 witness: a rejected call while a subscriber is registered and a record
\* is stored
C10_Witness ==
  /\ last.op = "update" /\ last.code = 400
  /\ variant = VJob
  /\ \E c \in ChanIds : Registered(c)
  /\ \E j \in RunIds : jobUpdates[j] # NoRec

\* ---------------------------------------------------------------- C4
\* assistant messages in the conversation that report the end of job j
CompletionMsgs(j) ==
  Cardinality({i \in 1..Len(messages) :
                 /\ messages[i].role = "assistant"
                 /\ messages[i].runID = j
                 /\ IsTerminal(messages[i].status)})

\* a terminal update of job j came in on j's own connection and was handed to
\* handleSSEUpdate
CompletionHandled(j) == \E c \in ChanIds : chans[c].path = j /\ chans[c].got > 0

\* C4: in the broadcast-enabled useChat, while the broadcast subscription is
\* held, a completion of a job the client subscribed to leaves exactly one
\* assistant completion message for that job in the conversation.
C4_ExactlyOneCompletion ==
  \A j \in PushIds :
    (connectionsRef[BroadcastToken] # 0 /\ CompletionHandled(j)) => CompletionMsgs(j) = 1

\* ---------------------------------------------------------------- C5
PollDone == pollPc \in {"resolved", "rejected"}
ReadRecord == polled \notin {NotPolled, Failed}

\* C5: a poll attempt of a loop that asks the edge function and reads a record
\* with status completed, with or without an answer text, makes pollForResult
\* return: the loop resolves on the first attempt after the ingress.
C5_PollConvergence ==
  (pollKind \in {PStrict, PNormalizing} /\ ReadRecord /\ polled.status = "completed")
    => pollPc = "resolved"

\* ---------------------------------------------------------------- C7
\* C7: pollForResult always terminates; it never makes more than
\* MAX_POLL_ATTEMPTS attempts, and it rejects only with the timeout error and
\* only after exactly MAX_POLL_ATTEMPTS attempts.
C7_PollTerminates ==
  /\ [](attempt <= MAX_POLL_ATTEMPTS /\ fetches <= MAX_POLL_ATTEMPTS)
  /\ [](pollPc = "rejected" => (pollResult = TimeoutMsg /\ attempt = MAX_POLL_ATTEMPTS))
  /\ (pollPc = "polling" ~> PollDone)

C7_Witness ==
  /\ pollPc = "rejected"
  /\ pollResult = TimeoutMsg
  /\ fetches = MAX_POLL_ATTEMPTS
  /\ ReadRecord /\ polled.status = "pending"

\* ---------------------------------------------------------------- C8
\* C8: a poll attempt that reads a record with status error ends
\* pollForResult at that attempt, rejecting with the backend's failure detail.
C8_ErrorStopsPolling ==
  (ReadRecord /\ polled.status = "error")
    => /\ pollPc = "rejected"
       /\ pollResult = (IF Truthy(polled.error) THEN polled.error ELSE "Workflow execution failed")

\* ---------------------------------------------------------------- C9
\* C9: a poll attempt that fails in transport does not end pollForResult: the
\* loop is still polling after it, unless that attempt was the last of the
\* budget, and every request sent, failed ones included, has consumed exactly
\* one unit of the budget.
C9_FailureRetried ==
  /\ attempt = fetches
  /\ polled = Failed
       => \/ pollPc = "polling"
          \/ pollPc = "rejected" /\ pollResult = TimeoutMsg /\ attempt = MAX_POLL_ATTEMPTS

C9_Witness ==
  /\ pollKind = PStrict
  /\ polled = Failed
  /\ pollPc = "polling"
  /\ attempt = 2

\* ---------------------------------------------------------------- C11
\* the identifier a body carries, under whichever of the three keys
AnyId(b) ==
  IF b.jobId # Undef THEN b.jobId ELSE IF b.runID # Undef THEN b.runID ELSE b.runId

\* connection c is in the registry list of key k
RegisteredOn(c, k) == \E i \in 1..Len(sseClients[k]) : sseClients[k][i] = c

\* the step wrote one event with this status and answer to connection c
Wrote(c, status, answer) ==
  /\ Len(chans'[c].wire) = Len(chans[c].wire) + 1
  /\ chans'[c].wire[Len(chans'[c].wire)].status = status
  /\ chans'[c].wire[Len(chans'[c].wire)].answer = answer

\* C11: an ingress call whose body carries the identifier X under any of the
\* keys jobId, runID, runId, and a status, stores the update under X and
\* writes it to the listening connections registered for X.
C11_AliasNormalized ==
  [][last'.op = "update" =>
       \A b \in IngressBodies :
         (IngressStep(b) /\ Truthy(AnyId(b)) /\ Truthy(b.status))
           => /\ jobUpdates'[AnyId(b)].status = b.status
              /\ jobUpdates'[AnyId(b)].answer = b.answer
              /\ \A c \in ChanIds :
                   (RegisteredOn(c, AnyId(b)) /\ chans[c].cli = "active")
                     => Wrote(c, b.status, b.answer)]_vars

\* ---------------------------------------------------------------- C12
\* the status the claim says an update takes effect with
EffectiveStatus(b) ==
  IF b.status # Undef THEN b.status
  ELSE IF b.answer # Undef THEN "completed" ELSE "pending"

\* the registry key an update of the broadcast-capable router goes to
FanKey(b) == IF b.runID # Undef THEN b.runID ELSE BROADCAST_KEY

\* C12: in the broadcast-capable router the effective status of an update
\* (the supplied one, else completed with an answer, else pending) is the
\* status stored, the status written to the subscribers, and the status that
\* decides whether the job's connections are ended, its registry entry
\* dropped and a deletion timer started.
C12_StatusInference ==
  [][(variant = VBroadcast /\ last'.op = "update") =>
       \A b \in InferBodies :
         PostUpdateBroadcast(b) =>
           LET eff == EffectiveStatus(b)
               closes == b.runID # Undef /\ IsTerminal(eff)
           IN /\ b.runID # Undef => jobUpdates'[b.runID].status = eff
              /\ \A c \in ChanIds :
                   RegisteredOn(c, FanKey(b)) =>
                     /\ chans[c].cli = "active" => Wrote(c, eff, b.answer)
                     /\ closes <=> chans'[c].srv = "ended"
              /\ IF closes
                 THEN /\ sseClients'[b.runID] = <<>>
                      /\ timers'[b.runID] = timers[b.runID] + 1
                 ELSE /\ sseClients' = sseClients
                      /\ timers' = timers]_vars

\* C12 witness: a body without status and with an answer was written as
\* completed to the job's connection and ended it; a later body with a
\* supplied pending status and an answer was stored as pending
C12_Witness ==
  /\ \E c \in ChanIds :
       /\ chans[c].path \in PushIds
       /\ chans[c].srv = "ended"
       /\ chans[c].wire # <<>>
       /\ chans[c].wire[Len(chans[c].wire)].status = "completed"
       /\ chans[c].wire[Len(chans[c].wire)].answer = "a1"
  /\ \E j \in PushIds :
       /\ jobUpdates[j].status = "pending" /\ jobUpdates[j].answer = "a1"
       /\ timers[j] > 0

\* ---------------------------------------------------------------- C13
\* C13: in the broadcast-capable router an ingress call whose body has no job
\* identifier is written to every listening connection registered on the
\* broadcast channel, touches no other connection, and leaves the Job Store
\* as it was, so that GET /status of every identifier answers as before.
C13_BroadcastIngress ==
  [][(variant = VBroadcast /\ last'.op = "update") =>
       \A b \in InferBodies :
         (PostUpdateBroadcast(b) /\ AnyId(b) = Undef) =>
           /\ \A c \in ChanIds :
                IF RegisteredOn(c, BROADCAST_KEY)
                THEN /\ chans[c].cli = "active" => Wrote(c, EffectiveStatus(b), b.answer)
                     /\ chans'[c].srv = chans[c].srv
                ELSE chans'[c] = chans[c]
           /\ jobUpdates' = jobUpdates
           /\ \A j \in RunIds : StatusBody(jobUpdates', j) = StatusBody(jobUpdates, j)
           /\ sseClients' = sseClients
           /\ timers' = timers]_vars

\* C13 witness: a broadcast update is on its way to the broadcast listener
\* while a registered job listener has nothing to read and the Job Store is
\* empty
C13_Witness ==
  /\ \E c \in ChanIds :
       /\ chans[c].path = BroadcastToken
       /\ RegisteredOn(c, BROADCAST_KEY)
       /\ chans[c].wire # <<>>
       /\ chans[c].wire[1].runID = Null
  /\ \E c \in ChanIds :
       /\ chans[c].path \in PushIds
       /\ RegisteredOn(c, chans[c].path)
       /\ chans[c].wire = <<>>
  /\ \A j \in RunIds : jobUpdates[j] = NoRec

\* ---------------------------------------------------------------- C14
\* C14: no ingress call, whatever string it carries as job identifier and
\* whatever its status, ends a connection registered on the broadcast channel
\* or takes it out of the registry; a connection the ingress ends is a job's
\* connection, and the update written to it is terminal.
C14_BroadcastOutlives ==
  [][(\E b \in ReservedBodies : PostUpdateBroadcast(b)) =>
       \A c \in ChanIds :
         /\ RegisteredOn(c, BROADCAST_KEY)
              => /\ chans'[c].srv = chans[c].srv
                 /\ RegisteredOn(c, BROADCAST_KEY)'
         /\ (chans[c].srv # "ended" /\ chans'[c].srv = "ended")
              => /\ chans[c].path # BroadcastToken
                 /\ chans[c].cli = "active"
                      => IsTerminal(chans'[c].wire[Len(chans'[c].wire)].status)]_vars

\* ---------------------------------------------------------------- C15
\* the ingress call with body b is accepted by one of the Express routers
ExpressStep(b) ==
  \/ PostUpdateBroadcast(b)
  \/ PostUpdateJob(b) /\ Truthy(b.jobId) /\ Truthy(b.status)

\* the registry key its fan-out goes to, and the status it goes with
ExpressKey(b) == IF variant = VBroadcast THEN FanKey(b) ELSE b.jobId
ExpressStatus(b) == IF variant = VBroadcast THEN EffectiveStatus(b) ELSE b.status

\* C15: when the write to one connection of the fan-out throws, the update is
\* still written to every other listening connection registered for the key,
\* the record is stored, and the call answers with success.
C15_FanoutIsolation ==
  [][\A b \in FanBodies :
       (/\ ExpressStep(b)
        /\ \E x \in ChanIds : RegisteredOn(x, ExpressKey(b)) /\ chans[x].srv = "broken")
         => /\ \A c \in ChanIds :
                 (/\ RegisteredOn(c, ExpressKey(b))
                  /\ chans[c].srv # "broken"
                  /\ chans[c].cli \in {"active", "raw"})
                   => Wrote(c, ExpressStatus(b), b.answer)
            /\ ExpressKey(b) # BROADCAST_KEY
                 => /\ jobUpdates'[ExpressKey(b)].status = ExpressStatus(b)
                    /\ jobUpdates'[ExpressKey(b)].answer = b.answer
            /\ last'.op = "update" /\ last'.code = 200]_vars

\* C15 witness: of two connections registered for the same job, the one whose
\* write throws was passed over and the other was written the terminal update
\* and ended
C15_Witness ==
  \E c, d \in ChanIds :
    /\ chans[c].path \in PushIds /\ chans[d].path = chans[c].path
    /\ chans[c].srv = "broken" /\ chans[c].wire = <<>>
    /\ chans[d].srv = "ended" /\ chans[d].wire # <<>>
    /\ IsTerminal(jobUpdates[chans[c].path].status)
    /\ timers[chans[c].path] = 1
    /\ last.op = "update" /\ last.code = 200

\* ---------------------------------------------------------------- C16
\* the body carries what the deployed variant needs to accept it for a job
ValidFor(b) == Truthy(ResolvedId(b)) /\ (variant # VBroadcast => Truthy(b.status))

\* C16: a valid ingress call for a job with no connection registered answers
\* with success and leaves a record in the Job Store, and a status query made
\* while the deletion timer of the latest terminal ingress is still pending
\* (timers of one job run the same delay, so the latest set fires last)
\* answers with the stored record.
C16_ZeroSubscribers ==
  [][/\ \A b \in Bodies :
          (IngressStep(b) /\ ValidFor(b) /\ sseClients[ResolvedId(b)] = <<>>)
            => /\ last'.op = "update" /\ last'.code = 200
               /\ jobUpdates'[ResolvedId(b)] # NoRec
     /\ \A j \in RunIds :
          (GetStatus(j) /\ timers[j] > 0)
            => /\ jobUpdates[j] # NoRec
               /\ last'.body = jobUpdates[j]]_vars

\* ---------------------------------------------------------------- C17
\* the wire of a connection is consumed at its head and extended at its tail
Fifo(c) ==
  \/ chans'[c].wire = chans[c].wire
  \/ chans[c].wire # <<>> /\ chans'[c].wire = Tail(chans[c].wire)
  \/ /\ Len(chans'[c].wire) = Len(chans[c].wire) + 1
     /\ SubSeq(chans'[c].wire, 1, Len(chans[c].wire)) = chans[c].wire

\* C17: an ingress call for a job puts its update behind everything already
\* written to each connection registered for the job and into the Job Store,
\* and no step takes an event from a connection other than the oldest one, so
\* each connection is handed the updates in the order the calls arrived.
C17_PerJobOrder ==
  [][/\ \A b \in OrderBodies :
          ExpressStep(b)
            => /\ \A c \in ChanIds :
                    (RegisteredOn(c, ExpressKey(b)) /\ chans[c].cli = "raw")
                      => /\ Wrote(c, ExpressStatus(b), b.answer)
                         /\ SubSeq(chans'[c].wire, 1, Len(chans[c].wire)) = chans[c].wire
               /\ jobUpdates'[ExpressKey(b)].status = ExpressStatus(b)
               /\ jobUpdates'[ExpressKey(b)].answer = b.answer
     /\ \A c \in ChanIds :
          (chans[c].cli = "raw" /\ chans'[c].cli = "raw") => Fifo(c)]_vars

\* C17 witness: a registered connection holds two different updates of its
\* job, not yet read, and the later one is the record in the Job Store
C17_Witness ==
  \E c \in ChanIds :
    /\ chans[c].cli = "raw" /\ chans[c].srv = "registered"
    /\ Len(chans[c].wire) = 2
    /\ chans[c].wire[1] # chans[c].wire[2]
    /\ chans[c].wire[2].status = jobUpdates[chans[c].path].status
    /\ chans[c].wire[2].answer = jobUpdates[chans[c].path].answer
    /\ last.op = "update"

\* ---------------------------------------------------------------- C18
\* the registry key connection c was opened for
KeyOf(c) == IF variant = VBroadcast THEN TargetKey(chans[c].path) ELSE chans[c].path

\* how often connection c occurs in the registry list of key k
Occurrences(c, k) == Cardinality({i \in 1..Len(sseClients[k]) : sseClients[k][i] = c})

\* C18: with connects, disconnects and ingress calls for one job in any
\* order, an ingress call writes its update exactly once to every connection
\* that is registered for the key and not disconnected, and to no other; a
\* registry list holds a connection at most once and only while the server
\* has it registered, it holds every registered connection whose reader is
\* still there, and the close handler of a connection takes it off the list.
C18_ListAtomicity ==
  [][/\ \A b \in FanBodies :
          ExpressStep(b)
            => \A c \in ChanIds :
                 IF RegisteredOn(c, ExpressKey(b)) /\ chans[c].cli = "raw"
                 THEN /\ Wrote(c, ExpressStatus(b), b.answer)
                      /\ SubSeq(chans'[c].wire, 1, Len(chans[c].wire)) = chans[c].wire
                 ELSE chans'[c].wire = chans[c].wire
     /\ \A c \in ChanIds : \A k \in RegKeys :
          /\ Occurrences(c, k) <= 1
          /\ Occurrences(c, k) = 1 => (chans[c].srv = "registered" /\ KeyOf(c) = k)
          /\ (chans[c].srv = "registered" /\ chans[c].cli = "raw" /\ KeyOf(c) = k)
               => Occurrences(c, k) = 1
          /\ ReqClose(c) => ~RegisteredOn(c, k)']_vars

\* C18 witness: of two connections registered for one job the first went away
\* and its close handler ran, and the ingress call that followed wrote its
\* update to the second, which is the only one on the list
C18_Witness ==
  \E c, d \in ChanIds :
    /\ c < d
    /\ chans[c].path \in PushIds /\ chans[d].path = chans[c].path
    /\ chans[c].cli = "closed" /\ chans[c].srv = "done" /\ chans[c].wire = <<>>
    /\ chans[d].cli = "raw" /\ chans[d].srv = "registered" /\ chans[d].wire # <<>>
    /\ sseClients[chans[d].path] = <<d>>
    /\ jobUpdates[chans[d].path] = NoRec => FALSE
    /\ last.op = "update" /\ last.code = 200

\* ---------------------------------------------------------------- C19
\* connection c was closed by unsubscribe: the hook closes a connection
\* itself only there or on a terminal update, which it counts
Unsubscribed(c) == chans[c].cli = "closed" /\ chans[c].got = 0

\* connection c is on a registry list after the step
RegisteredNext(c) ==
  \E k \in RegKeys : \E i \in 1..Len(sseClients'[k]) : sseClients'[k][i] = c

UpdateOfJob(msgs, i) ==
  /\ msgs[i].role = "assistant"
  /\ msgs[i].runID \in RunIds
  /\ msgs[i].status # "in_progress"

\* C20: clearChat closes every job subscription of the hook and forgets what
\* it tracked, and the message list never shows the update of a job without
\* the user message that submitted it, that is, no update of a job submitted
\* before a clear is appended to the list once cleared.
C20_ClearTearsDown ==
  [][/\ ClearChat
          => /\ \A c \in ChanIds : chans[c].path \in RunIds => chans'[c].cli # "active"
             /\ \A j \in RunIds : connectionsRef'[j] = 0 /\ pendingJobIdsRef'[j] = 0
             /\ activeSubscriptionsRef' = {}
     /\ \A i \in 1..Len(messages') :
          UpdateOfJob(messages', i)
            => \E u \in 1..(i - 1) : messages'[u].role = "user"]_vars

\* ---------------------------------------------------------------- C21
\* the number of assistant messages in a list
Assistants(msgs) == Cardinality({i \in 1..Len(msgs) : msgs[i].role = "assistant"})

\* C21: when the hook is handed a terminal update of a job it tracked at
\* submission, the provisional message of that job takes the status of the
\* update in place and the number of assistant messages stays as it was.
C21_ReconcileInPlace ==
  [][\A c \in ChanIds :
       (/\ AppOnMessage(c)
        /\ IsTerminal(Head(chans[c].wire).status)
        /\ pendingJobIdsRef[chans[c].path] # 0)
         => /\ Assistants(messages') = Assistants(messages)
            /\ messages'[pendingJobIdsRef[chans[c].path]].status = Head(chans[c].wire).status]_vars

\* ---------------------------------------------------------------- C22
\* C22: an ingress call that reports the failure of a job with a detail
\* writes an event carrying that detail to the connection of a subscribed
\* client and ends the connection; the hook, on reading an error event, closes
\* its side and appends an error turn whose text holds the detail.
C22_PushedFailure ==
  [][/\ \A b \in AppBodies : \A c \in ChanIds :
          (/\ ExpressStep(b)
           /\ b.status = "error" /\ b.error # Undef
           /\ RegisteredOn(c, ExpressKey(b)) /\ chans[c].cli = "active")
            => /\ Wrote(c, "error", b.answer)
               /\ ErrorDetail(chans'[c].wire[Len(chans'[c].wire)]) = b.error
               /\ chans'[c].srv = "ended"
     /\ \A c \in ChanIds :
          (AppOnMessage(c) /\ Head(chans[c].wire).status = "error")
            => /\ chans'[c].cli = "closed"
               /\ connectionsRef'[chans[c].path] = 0
               /\ messages'[Len(messages')].content = ErrorTurn(ErrorDetail(Head(chans[c].wire)))]_vars

\* ---------------------------------------------------------------- C23
\* the job identifier a trigger response carries, under whichever key
TriggerId(t) ==
  IF t.runID # Undef THEN t.runID ELSE IF t.runId # Undef THEN t.runId ELSE t.jobId

\* spellings of a status that normalize to "in progress"
InProgressForms == {"in_progress", "In Progress", "IN-PROGRESS"}

\* C23: when the trigger response carries a job identifier and a status that
\* normalizes to "in progress", sendChatMessage resolves with meta.runID set
\* to that identifier, and sendMessage tracks the job as pending and opens a
\* subscription for it.
C23_AsyncClassification ==
  [][inflight' < inflight =>
     \A t \in {x \in Triggers : x.ok = Ok /\ TriggerId(x) # Undef /\ x.status \in InProgressForms} :
       SendSettled(t)
         => /\ ~sendChatMessage(t).threw
            /\ sendChatMessage(t).runID = TriggerId(t)
            /\ TriggerId(t) \in activeSubscriptionsRef'
            /\ TriggerId(t) \in RunIds
            /\ pendingJobIdsRef'[TriggerId(t)] # 0
            /\ connectionsRef'[TriggerId(t)] # 0]_vars

\* ---------------------------------------------------------------- C24
\* spellings of a status that normalize to error, failed or failure
ErrorForms == {"error", "Failed", " FAILURE "}

SyncOutcome(t) ==
  /\ ~sendChatMessage(t).threw
  /\ messages' = Append(messages, Msg("assistant", t.answer, Undef, Undef))
  /\ isLoading' = FALSE
  /\ chatError' = chatError
  /\ pendingJobIdsRef' = pendingJobIdsRef
  /\ activeSubscriptionsRef' = activeSubscriptionsRef
  /\ chans' = chans /\ connectionsRef' = connectionsRef

\* the responses with an answer that carry no job identifier together with a
\* status that normalizes to "in progress"
AnswerNotInProgress ==
  {x \in Triggers : /\ x.ok = Ok
                    /\ x.answer # Undef
                    /\ ~(TriggerId(x) # Undef /\ x.status \in InProgressForms)}

TerminalForms == {"completed", "done", "COMPLETED", "failed"}

\* C26: an update for a job whose status normalizes to a terminal one is
\* terminal for the server, which ends every connection on the job's list
\* after writing the event, empties the list and schedules the deletion of the
\* record, and for the client hook, which closes and forgets its connection
\* after handing the update on.
C26_NormalizedTerminal ==
  [][/\ \A b \in AliasBodies :
          (ExpressStep(b) /\ b.runID # Undef /\ b.status \in TerminalForms)
            => /\ \A c \in ChanIds :
                    (RegisteredOn(c, b.runID) /\ chans[c].srv = "registered")
                      => chans'[c].srv = "ended"
               /\ sseClients'[b.runID] = <<>>
               /\ timers'[b.runID] = timers[b.runID] + 1
     /\ \A c \in ChanIds :
          (/\ OnMessage(c)
           /\ chans[c].path \in PushIds
           /\ Head(chans[c].wire).status \in TerminalForms)
            => /\ chans'[c].cli = "closed"
               /\ connectionsRef'[chans[c].path] = 0]_vars

\* ---------------------------------------------------------------- C27
\* C27: a status query leaves the Job Store, the subscriber registry and the
\* pending deletion timers as they were; for a job without a record it answers
\* {status: 'pending'} and there is still no record afterwards.
C27_StatusPureRead ==
  [][\A j \in RunIds :
       GetStatus(j)
         => /\ jobUpdates' = jobUpdates
            /\ sseClients' = sseClients
            /\ timers' = timers
            /\ chans' = chans
            /\ last'.body = StatusBody(jobUpdates, j)
            /\ jobUpdates[j] = NoRec
                 => /\ last'.body = [status |-> "pending", answer |-> Undef,
                                     error |-> Undef, runID |-> Undef]
                    /\ jobUpdates'[j] = NoRec]_vars

\* C27 witness: an unknown job has just been queried and answered pending,
\* while another job has a record and a pending deletion timer
C27_Witness ==
  /\ last.op = "status"
  /\ last.key \in RunIds
  /\ jobUpdates[last.key] = NoRec
  /\ last.body.status = "pending"
  /\ \E j \in RunIds : jobUpdates[j] # NoRec /\ timers[j] > 0

\* ---------------------------------------------------------------- C28
\* C28: a registered connection that is not closed has its heartbeat interval
\* set, and when the write of a heartbeat throws, the interval is cleared and
\* the connection is taken off the subscriber registry in that step, so that a
\* later fan-out does not visit it.
C28_HeartbeatTeardown ==
  /\ [](\A c \in ChanIds : chans[c].srv = "registered" => chans[c].beat)
  /\ [][\A c \in ChanIds :
          (Heartbeat(c) /\ chans[c].srv = "broken")
            => /\ ~chans'[c].beat
               /\ ~RegisteredNext(c)]_vars

\* ---------------------------------------------------------------- C29
\* what belongs to job B is the same before and after the step: its record,
\* its subscriber list, the connections on its stream, the hook's connection
\* for it and its pending tracking
JobUntouched(B) ==
  /\ jobUpdates'[B] = jobUpdates[B]
  /\ sseClients'[B] = sseClients[B]
  /\ timers'[B] = timers[B]
  /\ \A c \in ChanIds : chans[c].path = B => chans'[c] = chans[c]
  /\ connectionsRef'[B] = connectionsRef[B]
  /\ pendingJobIdsRef'[B] = pendingJobIdsRef[B]
  /\ (B \in activeSubscriptionsRef') = (B \in activeSubscriptionsRef)

\* C29: an ingress call for job A writes only to connections on the stream of
\* A, and neither it nor the hook's handling of the delivered update changes
\* what belongs to another job B.
C29_JobIndependence ==
  [][/\ \A b \in JobBodies :
          ExpressStep(b)
            => /\ \A c \in ChanIds : chans'[c] # chans[c] => chans[c].path = b.runID
               /\ \A B \in RunIds \ {b.runID} : JobUntouched(B)
     /\ \A c \in ChanIds :
          AppOnMessage(c) => \A B \in RunIds \ {chans[c].path} : JobUntouched(B)]_vars

\* C29 witness: two jobs are tracked with a connection each; an update for one
\* of them has been delivered and handled, the other is still pending with its
\* connection open and nothing written to it
C29_Witness ==
  \E A \in RunIds : \E B \in RunIds \ {A} :
    /\ pendingJobIdsRef[A] = 0 /\ A \notin activeSubscriptionsRef
    /\ jobUpdates[A] # NoRec /\ jobUpdates[A].status = "completed"
    /\ \E i \in 1..Len(messages) : messages[i].runID = A /\ messages[i].status = "completed"
    /\ pendingJobIdsRef[B] # 0 /\ B \in activeSubscriptionsRef
    /\ connectionsRef[B] # 0
    /\ chans[connectionsRef[B]].cli = "active"
    /\ chans[connectionsRef[B]].srv = "registered"
    /\ chans[connectionsRef[B]].wire = <<>>
    /\ jobUpdates[B] = NoRec

\* ---------------------------------------------------------------- C30
\* the submission ended in the catch block of sendMessage with message m
EndsInError(m) ==
  /\ inflight' = inflight - 1
  /\ chatError' = m
  /\ isLoading' = FALSE
  /\ messages' = messages

\* C30: whichever way a submission fails (the trigger request does not get
\* through, it is answered with a non-2xx status, the response reports a
\* failure, or pollForResult runs out of attempts), sendMessage ends with
\* state.error holding the message of the failure, isLoading false and no
\* message appended.
C30_SingleErrorSlot ==
  [][inflight' < inflight =>
       /\ \A t \in {x \in Triggers : sendChatMessage(x).threw} :
            (variant # VEdge /\ SendSettled(t))
              => /\ EndsInError(sendChatMessage(t).message)
                 /\ t.ok = NetworkError => chatError' = FailedToFetch
                 /\ t.ok = HttpError => chatError' = RequestFailed
                 /\ t.ok = Ok => chatError' = (IF t.answer # Undef THEN t.answer ELSE WorkflowFailed)
       /\ \A t \in {x \in PollTriggers : sendChatMessagePolling(x).threw} :
            SendSettledPolling(t) => EndsInError(sendChatMessagePolling(t).answer)
       /\ (SendPolled /\ pollPc = "rejected") => EndsInError(TimeoutMsg)]_vars

\* C30 witness: a submission of the polling hook has ended after pollForResult
\* used up its attempts
C30_Witness ==
  /\ variant = VEdge
  /\ attempt = MAX_POLL_ATTEMPTS
  /\ pollPc = "settled"
  /\ chatError = TimeoutMsg
  /\ ~isLoading /\ inflight = 0
  /\ Len(messages) = 1 /\ messages[1].role = "user"

\* ---------------------------------------------------------------- C31
\* the open connections of useSSEUpdates on stream path k
OpenOn(k) == {c \in ChanIds : chans[c].cli = "active" /\ chans[c].path = k}

\* C31: useSSEUpdates never has more than one open connection for a
\* subscription key, and every open connection is the one its key is mapped to
\* in connectionsRef.
C31_OneConnectionPerJob ==
  /\ \A k \in StreamPaths : Cardinality(OpenOn(k)) <= 1
  /\ \A c \in ChanIds : chans[c].cli = "active" => connectionsRef[chans[c].path] = c

\* C31 witness: the key of a connection that was closed has been subscribed
\* again, and the new connection is the tracked one
C31_Witness ==
  \E c \in ChanIds : \E d \in ChanIds \ {c} :
    /\ chans[c].path = chans[d].path
    /\ chans[c].cli = "closed"
    /\ chans[d].cli = "active"
    /\ connectionsRef[chans[d].path] = d

C33_SessionFiltering ==
  /\ (Truthy(realtime.onUpdate.sessionId) /\ realtime.onUpdate.update.session_id # Null)
       => realtime.onUpdate.update.session_id = realtime.onUpdate.sessionId
  /\ \A u1 \in Changes \ {NoRow} : \A u2 \in Changes \ {NoRow} :
       (u1.session_id = u2.session_id /\ u1.status = u2.status)
         => (Passes(realtime.sessionId, realtime.completedOnly, u1)
               <=> Passes(realtime.sessionId, realtime.completedOnly, u2))

\* C33 witness: the subscriber of session s1 was handed a completed update of
\* its own session while listening for session s1
C33_Witness ==
  /\ realtime.channel /\ realtime.sessionId = "s1"
  /\ realtime.onUpdate.sessionId = "s1"
  /\ realtime.onUpdate.update.session_id = "s1"
  /\ realtime.onUpdate.update.status = "Done "

\* ---------------------------------------------------------------- C34
\* C34: a terminal record stays readable for the whole grace period of the
\* most recent terminal ingress for its job: a deletion timer that fires while
\* the timer of a later terminal ingress for the same job is still pending
\* (timers of one job run the same delay and fire in the order they were set)
\* removes no record.
C34_FullGracePeriod ==
  [][\A j \in StoreKeys :
       (TimerFire(j) /\ jobUpdates[j] # NoRec) => timers'[j] = 0]_vars

\* ---------------------------------------------------------------- C35
\* C35: between request handlers no connection is registered in the
\* Subscription Registry under a key whose Job Store record has a terminal
\* status.
C35_NoSubscriberForTerminalJob ==
  \A k \in RegKeys : IsTerminal(jobUpdates[k].status) => sseClients[k] = <<>>

\* ---------------------------------------------------------------- C36
\* C36: in the useChat of the main application state.isLoading is true exactly
\* while a sendMessage call awaits its trigger response.
C36_LoadingTracksInflight == isLoading <=> inflight > 0

\* ---------------------------------------------------------------- C37
\* C37: in the broadcast-enabled useChat a job identifier is in
\* activeSubscriptionsRef exactly when useSSEUpdates holds an open connection
\* for it.
C37_TrackingMatchesConnections ==
  \A j \in RunIds : j \in activeSubscriptionsRef <=> connectionsRef[j] # 0

\* ---------------------------------------------------------------- C38
\* the message at position i was appended for a pushed update of a job
Pushed(msgs, i) ==
  msgs[i].role = "assistant" /\ Truthy(msgs[i].runID) /\ msgs[i].status # "in_progress"

\* every message of a pushed update comes after a provisional message of its
\* job
ProvisionalFirst(msgs) ==
  \A i \in 1..Len(msgs) :
    Pushed(msgs, i)
      => \E h \in 1..(i - 1) : /\ msgs[h].role = "assistant"
                               /\ msgs[h].status = "in_progress"
                               /\ msgs[h].runID = msgs[i].runID

\* C38: a step of the useChat of the main application other than clearChat
\* leaves every message of the conversation as and where it was, new messages
\* coming at the end; and the messages of a job's pushed updates come after the
\* job's provisional assistant message.
C38_AppendOnly ==
  [][/\ ~ClearChat
          => /\ Len(messages') >= Len(messages)
             /\ SubSeq(messages', 1, Len(messages)) = messages
     /\ ProvisionalFirst(messages')]_vars

\* C38 witness: after the user's message and the provisional message of a
\* job, the job's pushed completion was appended
C38_Witness ==
  \E h \in 1..Len(messages) : \E i \in (h + 1)..Len(messages) :
    /\ messages[1].role = "user"
    /\ messages[h].status = "in_progress"
    /\ messages[i].runID = messages[h].runID
    /\ messages[i].status = "completed"

\* ---------------------------------------------------------------- C39
\* C39: a record leaves the Job Store only in the step of a deletion timer of
\* its own job identifier, and a deletion timer is set only by an ingress call
\* that stores a terminal record under that identifier; so status queries,
\* stream connects and disconnects remove nothing, and a job that never had a
\* terminal ingress keeps its record.
C39_OnlyTimersRemove ==
  [][\A j \in StoreKeys :
       /\ (jobUpdates[j] # NoRec /\ jobUpdates'[j] = NoRec) => TimerFire(j)
       /\ timers'[j] > timers[j]
            => /\ last'.op = "update" /\ last'.code = 200
               /\ IsTerminal(jobUpdates'[j].status)]_vars

\* C39 witness: a job whose record a timer removed has a pending record again,
\* no timer is set for it, and the record has outlived a status query and the
\* disconnect of a stream
C39_Witness ==
  /\ jobUpdates["r1"].status = "pending"
  /\ timers["r1"] = 0
  /\ last.op = "status" /\ last.key = "r1"
  /\ \E c \in ChanIds : chans[c].path = "r1" /\ chans[c].srv = "done"

====
